---------------------------- MODULE Spec2Model ----------------------------
(***************************************************************************)
(* A model of MasterGrader: the file mapper (file_mapper.py), the          *)
(* similarity engine (plagiarism_detector.py), template subtraction        *)
(* (tokenizer.py), the archive extractor (extractor.py) and the pipeline   *)
(* driver (main.py, config.py).                                            *)
(*                                                                         *)
(* Text is modelled as sequences of one-character strings, so that the     *)
(* regular expressions of the mapper and the substring operations of the   *)
(* tokenizer are computed character by character, as the code does.        *)
(* Numbers that are floats in the code are exact rationals here:           *)
(* a similarity is the pair (200*M, T) of SequenceMatcher's match count    *)
(* and total length, the threshold is in thousandths of a percent and      *)
(* the similarity recorded in a case is in hundredths (round(x, 2)).       *)
(* Confidence scores 0.9, 0.7, 0.5, 0.4 are the tenths 9, 7, 5, 4.         *)
(***************************************************************************)
EXTENDS Integers, Sequences, FiniteSets, TLC

(***************************************************************************)
(* Characters and strings                                                  *)
(***************************************************************************)

DigitChars == <<"0", "1", "2", "3", "4", "5", "6", "7", "8", "9">>

LowerChars == <<"a", "b", "c", "d", "e", "f", "g", "h", "i", "j", "k", "l", "m",
                "n", "o", "p", "q", "r", "s", "t", "u", "v", "w", "x", "y", "z">>

UpperChars == <<"A", "B", "C", "D", "E", "F", "G", "H", "I", "J", "K", "L", "M",
                "N", "O", "P", "Q", "R", "S", "T", "U", "V", "W", "X", "Y", "Z">>

\* The printable ASCII characters in code-point order (32..126); Python
\* compares strings by code point.  The grave accent (96) cannot be written in
\* a TLA+ string; "grave" holds its place.
AsciiChars == <<" ", "!", "\"", "#", "$", "%", "&", "'", "(", ")", "*", "+", ",",
                "-", ".", "/">> \o DigitChars \o
              <<":", ";", "<", "=", ">", "?", "@">> \o UpperChars \o
              <<"[", "\\", "]", "^", "_", "grave">> \o LowerChars \o
              <<"{", "|", "}", "~">>

DigitSet == {DigitChars[i] : i \in 1..Len(DigitChars)}

LetterSet == {LowerChars[i] : i \in 1..Len(LowerChars)}
             \cup {UpperChars[i] : i \in 1..Len(UpperChars)}

IsDigit(c) == c \in DigitSet

DigitVal(c) == (CHOOSE i \in 1..Len(DigitChars) : DigitChars[i] = c) - 1

IsLetter(c) == c \in LetterSet

\* \w of the re module (ASCII part)
IsWordChar(c) == IsDigit(c) \/ IsLetter(c) \/ c = "_"

\* \s of the re module and str.split()/str.strip()
IsSpace(c) == c \in {" ", "\t", "\n", "\r"}

LowerOf == [c \in {UpperChars[i] : i \in 1..Len(UpperChars)} |->
              LowerChars[CHOOSE i \in 1..Len(UpperChars) : UpperChars[i] = c]]

ToLower(c) == IF c \in DOMAIN LowerOf THEN LowerOf[c] ELSE c

\* a sequence given as a function, as the tuple of its values (evaluated once)
Tuple(f) == f \o <<>>

\* str.lower()
Lower(s) == Tuple([i \in 1..Len(s) |-> ToLower(s[i])])

OrdOf == [c \in {AsciiChars[i] : i \in 1..Len(AsciiChars)} |->
            31 + (CHOOSE i \in 1..Len(AsciiChars) : AsciiChars[i] = c)]

\* ord(c)
Ord(c) == OrdOf[c]

\* s < t for Python strings: lexicographic by code point
StrLess(s, t) ==
    \E k \in 1..(Len(t)) :
        /\ k <= Len(s) + 1
        /\ \A i \in 1..(k - 1) : s[i] = t[i]
        /\ (k = Len(s) + 1 \/ Ord(s[k]) < Ord(t[k]))

\* s[i..j] (1-based, inclusive); empty when j < i
Slice(s, i, j) == Tuple([k \in 1..(j - i + 1) |-> s[i + k - 1]])

\* the literal lit occurs in s at position i
OccursAt(s, i, lit) ==
    /\ i >= 1
    /\ i + Len(lit) - 1 <= Len(s)
    /\ \A k \in 1..Len(lit) : s[i + k - 1] = lit[k]

\* \b before position i of s (i in 1..Len(s)+1)
WordBoundaryAt(s, i) ==
    LET before == i > 1 /\ IsWordChar(s[i - 1])
        after  == i <= Len(s) /\ IsWordChar(s[i])
    IN  before # after

\* $ (without re.MULTILINE) before position i: the end of the string, or just
\* before a newline that ends the string
EndAt(s, i) == i = Len(s) + 1 \/ (i = Len(s) /\ s[i] = "\n")

\* str.find: the first position of lit in s, 0 when absent
Find(s, lit) ==
    IF \E i \in 1..(Len(s) + 1) : OccursAt(s, i, lit)
    THEN CHOOSE i \in 1..(Len(s) + 1) :
            OccursAt(s, i, lit) /\ \A j \in 1..(i - 1) : ~OccursAt(s, j, lit)
    ELSE 0

\* str.replace(old, new) for single characters
ReplaceChar(s, old, new) ==
    Tuple([i \in 1..Len(s) |-> IF s[i] = old THEN new ELSE s[i]])

\* the last position of character c in s, 0 when absent
LastIndexOf(s, c) ==
    IF \E i \in 1..Len(s) : s[i] = c
    THEN CHOOSE i \in 1..Len(s) : s[i] = c /\ \A j \in (i + 1)..Len(s) : s[j] # c
    ELSE 0

Max(S) == CHOOSE x \in S : \A y \in S : y <= x

\* the elements of a sequence
Range(seq) == {seq[i] : i \in 1..Len(seq)}

Min(S) == CHOOSE x \in S : \A y \in S : x <= y

RECURSIVE SplitFrom(_, _, _)
\* the pieces of s from position i on, cut at every sep
SplitFrom(s, sep, i) ==
    LET cut(rest) ==
            IF rest = {} THEN <<Slice(s, i, Len(s))>>
            ELSE <<Slice(s, i, Min(rest) - 1)>> \o SplitFrom(s, sep, Min(rest) + 1)
    IN  cut({j \in i..Len(s) : s[j] = sep})

\* str.split(sep)
Split(s, sep) == SplitFrom(s, sep, 1)

RECURSIVE Join(_, _)
\* sep.join(parts)
Join(parts, sep) ==
    IF Len(parts) = 0 THEN <<>>
    ELSE IF Len(parts) = 1 THEN parts[1]
    ELSE parts[1] \o sep \o Join(Tail(parts), sep)

\* os.path.basename (posix)
basename(path) == Slice(path, LastIndexOf(path, "/") + 1, Len(path))

\* os.path.dirname (posix), for paths with at least one directory
dirname(path) == Slice(path, 1, LastIndexOf(path, "/") - 1)

\* os.path.splitext(name)[1]: from the last dot of the basename, unless that
\* dot only follows leading dots
splitext_ext(path) ==
    LET ext_of(name, dot) ==
            IF dot = 0 \/ \A i \in 1..dot : name[i] = "."
            THEN <<>>
            ELSE Slice(name, dot, Len(name))
    IN  ext_of(basename(path), LastIndexOf(basename(path), "."))

\* os.path.splitext(name)[0]
splitext_root(name) == Slice(name, 1, Len(name) - Len(splitext_ext(name)))

\* str(n) for 0 <= n <= 99
RECURSIVE IntToStr(_)
IntToStr(n) ==
    IF n < 10 THEN <<DigitChars[n + 1]>>
    ELSE IntToStr(n \div 10) \o <<DigitChars[(n % 10) + 1]>>

RECURSIVE StrToInt(_)
\* int(s) for a string of digits
StrToInt(s) ==
    IF Len(s) = 0 THEN 0
    ELSE 10 * StrToInt(Slice(s, 1, Len(s) - 1)) + DigitVal(s[Len(s)])

(***************************************************************************)
(* Configuration constants (config.py)                                     *)
(***************************************************************************)

ACCEPTED_EXTENSIONS == << <<".", "c">>, <<".", "c", "p", "p">>, <<".", "h">> >>

IGNORE_PATTERNS == << <<"_", "_", "M", "A", "C", "O", "S", "X">>,
                      <<".", "D", "S", "_", "S", "t", "o", "r", "e">>,
                      <<"T", "h", "u", "m", "b", "s", ".", "d", "b">>,
                      <<".", "g", "i", "t">> >>

\* Python's None
NONE == <<>>

(***************************************************************************)
(* The file mapper (file_mapper.py)                                        *)
(*                                                                         *)
(* A compiled pattern is a record; Search is pattern.search.  The kinds:   *)
(*   word      \b{text}\b                                                  *)
(*   anchored  (?:^|[/\\]){body}(?:\.(?:\.c|\.cpp|\.h)|[/\\_]|$)            *)
(*             for a body of bodies ({q} and 0{q} stand for 0?{q})         *)
(*   literal   {text}                                                      *)
(*   dirseg    [/\\](?:q|question|soal|problem|ex|exercise)?{text}[/\\]     *)
(* All are compiled with re.IGNORECASE: the pattern texts are lower case   *)
(* and Search is given the lower-cased subject.                            *)
(***************************************************************************)

KW_q        == <<"q">>
KW_question == <<"q", "u", "e", "s", "t", "i", "o", "n">>
KW_soal     == <<"s", "o", "a", "l">>
KW_sual     == <<"s", "u", "a", "l">>
KW_problem  == <<"p", "r", "o", "b", "l", "e", "m">>
KW_ex       == <<"e", "x">>
KW_exercise == <<"e", "x", "e", "r", "c", "i", "s", "e">>

PathSeps == {"/", "\\"}

WordPattern(text)      == [kind |-> "word", text |-> text, bodies |-> {}]
AnchoredPattern(bodies) == [kind |-> "anchored", text |-> <<>>, bodies |-> bodies]
LiteralPattern(text)   == [kind |-> "literal", text |-> text, bodies |-> {}]
DirSegPattern(text)    == [kind |-> "dirseg", text |-> text,
                           bodies |-> {<<>>, KW_q, KW_question, KW_soal,
                                       KW_problem, KW_ex, KW_exercise}]

\* the list question_patterns that the loop body builds for q_num
build_strict_patterns(q_num) ==
    LET d == IntToStr(q_num)
    IN  << WordPattern(KW_q \o d),
           WordPattern(KW_question \o d),
           WordPattern(KW_soal \o d),
           WordPattern(KW_sual \o d),
           WordPattern(KW_problem \o d),
           WordPattern(KW_ex \o d),
           WordPattern(KW_exercise \o d),
           AnchoredPattern({KW_q \o d}),
           AnchoredPattern({KW_question \o d}),
           IF q_num < 10
           THEN AnchoredPattern({d, <<"0">> \o d})
           ELSE AnchoredPattern({d}),
           LiteralPattern(<<"[">> \o d \o <<"]">>),
           LiteralPattern(<<"(">> \o d \o <<")">>),
           LiteralPattern(<<"_">> \o d \o <<"_">>),
           DirSegPattern(d) >>

\* the tail (?:\.(?:\.c|\.cpp|\.h)|[/\\_]|$) of an anchored pattern at j:
\* ext_pattern joins the escaped extensions, each of which already begins
\* with a dot, after the pattern's own \.
AnchoredTail(s, j) ==
    \/ \E e \in 1..Len(ACCEPTED_EXTENSIONS) :
            OccursAt(s, j, <<".">> \o ACCEPTED_EXTENSIONS[e])
    \/ (j <= Len(s) /\ s[j] \in (PathSeps \cup {"_"}))
    \/ EndAt(s, j)

\* pattern.search(s) is not None, for a lower-cased subject s
Search(p, s) ==
    CASE p.kind = "word" ->
            \E i \in 1..Len(s) :
                /\ OccursAt(s, i, p.text)
                /\ WordBoundaryAt(s, i)
                /\ WordBoundaryAt(s, i + Len(p.text))
      [] p.kind = "anchored" ->
            \E i \in 1..Len(s) :
                /\ (i = 1 \/ s[i - 1] \in PathSeps)
                /\ \E b \in p.bodies :
                        OccursAt(s, i, b) /\ AnchoredTail(s, i + Len(b))
      [] p.kind = "literal" ->
            \E i \in 1..Len(s) : OccursAt(s, i, p.text)
      [] p.kind = "dirseg" ->
            \E i \in 1..Len(s) :
                /\ s[i] \in PathSeps
                /\ \E b \in p.bodies :
                        LET j == i + 1 + Len(b) + Len(p.text)
                        IN  /\ OccursAt(s, i + 1, b \o p.text)
                            /\ j <= Len(s)
                            /\ s[j] \in PathSeps

RECURSIVE DigitRuns(_, _)
\* re.findall(r'\d+', s) from position i on: the maximal runs of digits
DigitRuns(s, i) ==
    IF i > Len(s) THEN <<>>
    ELSE IF ~IsDigit(s[i]) THEN DigitRuns(s, i + 1)
    ELSE LET run_to(e) == <<Slice(s, i, e - 1)>> \o DigitRuns(s, e)
         IN  run_to(Min({j \in i..(Len(s) + 1) : j = Len(s) + 1 \/ ~IsDigit(s[j])}))

\* FileMapper._extract_all_numbers, for NUM_QUESTIONS = N
extract_all_numbers(text, N) ==
    LET ints(runs) == Tuple([i \in 1..Len(runs) |-> StrToInt(runs[i])])
        valid(nums) == SelectSeq(nums, LAMBDA num : 1 <= num /\ num <= N)
    IN  valid(ints(DigitRuns(text, 1)))

\* the list confidence_scores of one question, as the set of its values:
\* 0.9 for a pattern found in the file name, 0.7 in the whole path, 0.5 in a
\* directory name of the path
confidence_scores(q_num, file_path, file_name) ==
    LET scores(normalized_path, name, patterns) ==
            LET found(s) == \E k \in 1..Len(patterns) : Search(patterns[k], s)
                in_dirs(path_parts) ==
                    \E k \in 1..Len(patterns) : \E x \in 1..(Len(path_parts) - 1) :
                        Search(patterns[k], path_parts[x])
            IN  (IF found(name) THEN {9} ELSE {})
                \cup (IF found(normalized_path) THEN {7} ELSE {})
                \cup (IF in_dirs(Split(normalized_path, "/")) THEN {5} ELSE {})
    IN  scores(Lower(ReplaceChar(file_path, "\\", "/")), Lower(file_name),
               build_strict_patterns(q_num))

\* the dict matches: the questions with a non-empty confidence_scores
strict_matches(file_path, file_name, N) ==
    LET keep(scores) == [q \in {x \in 1..N : scores[x] # {}} |-> scores[q]]
    IN  keep(Tuple([q \in 1..N |-> confidence_scores(q, file_path, file_name)]))

\* _match_strict_patterns without the refusal: of several matched questions
\* the lowest is assigned
match_strict_patterns_lowest(file_path, file_name, N) ==
    LET decide(matches) ==
            IF DOMAIN matches = {} THEN [result |-> NONE, warnings |-> <<>>]
            ELSE [result |-> <<Min(DOMAIN matches), Max(matches[Min(DOMAIN matches)])>>,
                  warnings |-> <<>>]
    IN  decide(strict_matches(file_path, file_name, N))

\* FileMapper._match_strict_patterns: the value returned and the warnings it
\* appends to self.warnings
match_strict_patterns(file_path, file_name, N) ==
    LET one(q_num, matches) ==
            [result |-> <<q_num, Max(matches[q_num])>>, warnings |-> <<>>]
        decide(matches) ==
            IF DOMAIN matches = {} THEN [result |-> NONE, warnings |-> <<>>]
            ELSE IF Cardinality(DOMAIN matches) > 1
            THEN [result |-> NONE,
                  warnings |-> << [kind |-> "patterns", file |-> file_name,
                                   questions |-> DOMAIN matches] >>]
            ELSE one(CHOOSE q \in DOMAIN matches : TRUE, matches)
    IN  decide(strict_matches(file_path, file_name, N))

\* FileMapper.map_file_to_question; exists is os.path.exists(file_path)
map_file_to_question(file_path, exists, N) ==
    LET decide(file_name, file_ext, strict, valid_numbers) ==
            IF ~exists THEN [result |-> NONE, warnings |-> <<>>]
            ELSE IF ~\E e \in 1..Len(ACCEPTED_EXTENSIONS) : ACCEPTED_EXTENSIONS[e] = file_ext
            THEN [result |-> NONE, warnings |-> <<>>]
            ELSE IF strict.result # NONE THEN strict
            ELSE IF Len(valid_numbers) = 1
            THEN [result |-> <<valid_numbers[1], 4>>, warnings |-> strict.warnings]
            ELSE IF Len(valid_numbers) > 1
            THEN [result |-> NONE,
                  warnings |-> strict.warnings \o
                               << [kind |-> "numbers", file |-> file_name,
                                   questions |-> Range(valid_numbers)] >>]
            ELSE [result |-> NONE, warnings |-> strict.warnings]
    IN  decide(basename(file_path),
               Lower(splitext_ext(basename(file_path))),
               match_strict_patterns(file_path, basename(file_path), N),
               extract_all_numbers(file_path \o <<" ">> \o basename(file_path), N))

\* a directory name that os.walk is told not to descend into:
\* any(ignore in d.lower() for ignore in IGNORE_PATTERNS)
is_ignored_dir(d) ==
    \E k \in 1..Len(IGNORE_PATTERNS) : Find(Lower(d), IGNORE_PATTERNS[k]) > 0

\* the list c_files: of the files under student_dir, given by their relative
\* paths in os.walk order, those outside ignored directories that have an
\* accepted extension, as os.path.join(root, file_name)
collect_c_files(student_dir, walk) ==
    LET outside_ignored(parts) ==
            \A x \in 1..(Len(parts) - 1) : ~is_ignored_dir(parts[x])
        kept(rel) ==
            /\ outside_ignored(Split(rel, "/"))
            /\ \E e \in 1..Len(ACCEPTED_EXTENSIONS) :
                    ACCEPTED_EXTENSIONS[e] = Lower(splitext_ext(rel))
    IN  SelectSeq(Tuple([i \in 1..Len(walk) |-> student_dir \o <<"/">> \o walk[i]]),
                  LAMBDA f : kept(Slice(f, Len(student_dir) + 2, Len(f))))

\* what map_file_to_question returns for each file of c_files, in order
map_results(c_files, N) ==
    Tuple([i \in 1..Len(c_files) |-> map_file_to_question(c_files[i], TRUE, N)])

\* the first candidate of question q_num in os.walk order, whatever its
\* confidence and its length
best_file_first(c_files, results, q_num) ==
    c_files[Min({i \in 1..Len(c_files) :
                    results[i].result # NONE /\ results[i].result[1] = q_num})]

\* candidates[0][0] of question q_num: its candidates (path, confidence) are
\* collected in c_files order and sorted by (-confidence, len(path));
\* list.sort is stable, so of equal keys the one os.walk found first stays first
best_file(c_files, results, q_num) ==
    LET before(i, j) ==
            \/ results[i].result[2] > results[j].result[2]
            \/ /\ results[i].result[2] = results[j].result[2]
               /\ Len(c_files[i]) < Len(c_files[j])
            \/ /\ results[i].result[2] = results[j].result[2]
               /\ Len(c_files[i]) = Len(c_files[j])
               /\ i < j
        first_of(cand) ==
            c_files[CHOOSE i \in cand : \A j \in cand : i = j \/ before(i, j)]
    IN  first_of({i \in 1..Len(c_files) :
                    results[i].result # NONE /\ results[i].result[1] = q_num})

\* final_mapping that keeps every candidate of a question, not only the best
final_mapping_all(c_files, results) ==
    LET mapped == {results[i].result[1] :
                      i \in {x \in 1..Len(c_files) : results[x].result # NONE}}
    IN  [q \in mapped |->
            SelectSeq(c_files, LAMBDA f :
                \E i \in 1..Len(c_files) :
                    /\ c_files[i] = f
                    /\ results[i].result # NONE
                    /\ results[i].result[1] = q)]

\* final_mapping, a dict from question numbers to lists of file paths
final_mapping(c_files, results) ==
    LET mapped == {results[i].result[1] :
                      i \in {x \in 1..Len(c_files) : results[x].result # NONE}}
    IN  [q \in mapped |-> <<best_file(c_files, results, q)>>]

RECURSIVE concat_warnings(_, _)
\* the warnings of results[i..], in order
concat_warnings(results, i) ==
    IF i > Len(results) THEN <<>>
    ELSE results[i].warnings \o concat_warnings(results, i + 1)

\* FileMapper.map_student_files on a student_dir whose files os.walk yields
\* as walk: the mapping returned, and self.warnings afterwards (cleared on
\* entry, then appended to file by file)
map_student_files(student_dir, exists, walk, N) ==
    LET outcome(c_files, results) ==
            [mapping  |-> final_mapping(c_files, results),
             warnings |-> concat_warnings(results, 1)]
        mapped(c_files) ==
            IF ~exists \/ Len(c_files) = 0
            THEN [mapping |-> <<>>, warnings |-> <<>>]
            ELSE outcome(c_files, map_results(c_files, N))
    IN  mapped(collect_c_files(student_dir, walk))

(***************************************************************************)
(* Template subtraction (tokenizer.py).  A token is a string, a token      *)
(* stream a sequence of tokens.                                            *)
(***************************************************************************)

RECURSIVE SplitWhitespace(_, _)
\* str.split() from position i on: the maximal runs of non-space characters
SplitWhitespace(s, i) ==
    IF i > Len(s) THEN <<>>
    ELSE IF IsSpace(s[i]) THEN SplitWhitespace(s, i + 1)
    ELSE LET run_to(e) == <<Slice(s, i, e - 1)>> \o SplitWhitespace(s, e)
         IN  run_to(Min({j \in i..(Len(s) + 1) : j = Len(s) + 1 \/ IsSpace(s[j])}))

\* " ".join(tokens)
JoinTokens(tokens) == Join(tokens, <<" ">>)

\* CTokenizer.subtract_template_tokens
subtract_template_tokens(student_tokens, template_tokens) ==
    LET keep(result_tokens) ==
            IF Len(result_tokens) > 0 THEN result_tokens ELSE student_tokens
        cut(student_str, template_str, at) ==
            IF at > 0
            THEN keep(SplitWhitespace(
                        Slice(student_str, 1, at - 1)
                        \o Slice(student_str, at + Len(template_str), Len(student_str)),
                        1))
            ELSE student_tokens
        remove(student_str, template_str) ==
            cut(student_str, template_str, Find(student_str, template_str))
    IN  IF Len(template_tokens) = 0 \/ Len(student_tokens) = 0
        THEN student_tokens
        ELSE remove(JoinTokens(student_tokens), JoinTokens(template_tokens))

(***************************************************************************)
(* The lexer (tokenizer.py): tokenize_to_list.  The code is a string, the  *)
(* result a list of tokens.                                                *)
(***************************************************************************)

\* Config.C_KEYWORDS
C_KEYWORDS ==
    { <<"a", "u", "t", "o">>, <<"b", "r", "e", "a", "k">>, <<"c", "a", "s", "e">>,
      <<"c", "h", "a", "r">>, <<"c", "o", "n", "s", "t">>, <<"c", "o", "n", "t", "i", "n", "u", "e">>,
      <<"d", "e", "f", "a", "u", "l", "t">>, <<"d", "o">>, <<"d", "o", "u", "b", "l", "e">>,
      <<"e", "l", "s", "e">>, <<"e", "n", "u", "m">>, <<"e", "x", "t", "e", "r", "n">>,
      <<"f", "l", "o", "a", "t">>, <<"f", "o", "r">>, <<"g", "o", "t", "o">>,
      <<"i", "f">>, <<"i", "n", "t">>, <<"l", "o", "n", "g">>,
      <<"r", "e", "g", "i", "s", "t", "e", "r">>, <<"r", "e", "t", "u", "r", "n">>, <<"s", "h", "o", "r", "t">>,
      <<"s", "i", "g", "n", "e", "d">>, <<"s", "i", "z", "e", "o", "f">>, <<"s", "t", "a", "t", "i", "c">>,
      <<"s", "t", "r", "u", "c", "t">>, <<"s", "w", "i", "t", "c", "h">>, <<"t", "y", "p", "e", "d", "e", "f">>,
      <<"u", "n", "i", "o", "n">>, <<"u", "n", "s", "i", "g", "n", "e", "d">>, <<"v", "o", "i", "d">>,
      <<"v", "o", "l", "a", "t", "i", "l", "e">>, <<"w", "h", "i", "l", "e">> }

\* Config.C_OPERATORS
C_OPERATORS ==
    { <<"!">>, <<"%">>, <<"&">>, <<"(">>, <<")">>, <<"*">>,
      <<"+">>, <<",">>, <<"-">>, <<".">>, <<"/">>, <<":">>,
      <<";">>, <<"<">>, <<"=">>, <<">">>, <<"?">>, <<"[">>,
      <<"]">>, <<"^">>, <<"{">>, <<"|">>, <<"}">>, <<"~">>,
      <<"!", "=">>, <<"%", "=">>, <<"&", "&">>, <<"&", "=">>, <<"*", "=">>, <<"+", "+">>,
      <<"+", "=">>, <<"-", "-">>, <<"-", "=">>, <<"-", ">">>, <<"/", "=">>, <<"<", "<">>,
      <<"<", "=">>, <<"=", "=">>, <<">", "=">>, <<">", ">">>, <<"^", "=">>, <<"|", "=">>,
      <<"|", "|">>, <<"<", "<", "=">>, <<">", ">", "=">> }

TOKEN_NUM == <<"N", "U", "M">>

TOKEN_STR == <<"S", "T", "R">>

TOKEN_ID == <<"I", "D">>

ToUpper(c) ==
    IF \E i \in 1..Len(LowerChars) : LowerChars[i] = c
    THEN UpperChars[CHOOSE i \in 1..Len(LowerChars) : LowerChars[i] = c]
    ELSE c

\* str.upper()
Upper(s) == Tuple([i \in 1..Len(s) |-> ToUpper(s[i])])

SpaceSet == {" ", "\t", "\n", "\r"}

WordSet == DigitSet \cup LetterSet \cup {"_"}

HexDigitSet == DigitSet \cup {"a", "b", "c", "d", "e", "f", "A", "B", "C", "D", "E", "F"}

OctalDigitSet == {"0", "1", "2", "3", "4", "5", "6", "7"}

\* the end of the longest run of characters of chars that begins at i
run_end(s, i, chars) ==
    Min({j \in i..(Len(s) + 1) : j = Len(s) + 1 \/ s[j] \notin chars})

\* the end of the line of position i: $ of re.MULTILINE from i on lies
\* before the first newline, or at the end of the string
line_end(s, i) == Min({j \in i..(Len(s) + 1) : j = Len(s) + 1 \/ s[j] = "\n"})

RECURSIVE sub_multi_line_comment(_, _)
\* multi_line_comment.sub(" ", code) from position i on: /\*.*?\*/ with
\* re.DOTALL
sub_multi_line_comment(code, i) ==
    LET closes(open) == {j \in (open + 2)..Len(code) : OccursAt(code, j, <<"*", "/">>)}
        opens == {j \in i..Len(code) :
                    OccursAt(code, j, <<"/", "*">>) /\ closes(j) # {}}
        replace(open) ==
            Slice(code, i, open - 1) \o <<" ">>
                \o sub_multi_line_comment(code, Min(closes(open)) + 2)
    IN  IF opens = {} THEN Slice(code, i, Len(code))
        ELSE replace(Min(opens))

RECURSIVE sub_single_line_comment(_, _)
\* single_line_comment.sub(" ", code) from position i on: //.*?$ with
\* re.MULTILINE
sub_single_line_comment(code, i) ==
    LET opens == {j \in i..Len(code) : OccursAt(code, j, <<"/", "/">>)}
        replace(open) ==
            Slice(code, i, open - 1) \o <<" ">>
                \o sub_single_line_comment(code, line_end(code, open + 2))
    IN  IF opens = {} THEN Slice(code, i, Len(code))
        ELSE replace(Min(opens))

\* CTokenizer._remove_comments
remove_comments(code, should_remove) ==
    IF ~should_remove THEN code
    ELSE sub_single_line_comment(sub_multi_line_comment(code, 1), 1)

\* the directives of preprocessor_pattern
DIRECTIVES ==
    { <<"i", "n", "c", "l", "u", "d", "e">>, <<"d", "e", "f", "i", "n", "e">>,
      <<"i", "f", "d", "e", "f">>, <<"i", "f", "n", "d", "e", "f">>,
      <<"e", "n", "d", "i", "f">>, <<"u", "n", "d", "e", "f">>, <<"i", "f">>,
      <<"e", "l", "s", "e">>, <<"e", "l", "i", "f">>,
      <<"p", "r", "a", "g", "m", "a">> }

\* where a match of preprocessor_pattern that begins at i ends, 0 when
\* there is none: ^\s*#\s*(?:include|...).*?$ with re.MULTILINE and
\* re.IGNORECASE
preprocessor_match(code, i) ==
    LET directive_at(k) ==
            \E d \in DIRECTIVES : OccursAt(Lower(code), k, d)
        after_hash(h) ==
            IF h <= Len(code) /\ code[h] = "#"
                /\ directive_at(run_end(code, h + 1, SpaceSet))
            THEN line_end(code, run_end(code, h + 1, SpaceSet))
            ELSE 0
    IN  IF i = 1 \/ code[i - 1] = "\n"
        THEN after_hash(run_end(code, i, SpaceSet))
        ELSE 0

RECURSIVE sub_preprocessor(_, _)
\* preprocessor_pattern.sub(" ", code) from position i on
sub_preprocessor(code, i) ==
    LET starts == {j \in i..Len(code) : preprocessor_match(code, j) > 0}
        replace(start) ==
            Slice(code, i, start - 1) \o <<" ">>
                \o sub_preprocessor(code, preprocessor_match(code, start))
    IN  IF starts = {} THEN Slice(code, i, Len(code))
        ELSE replace(Min(starts))

\* CTokenizer._remove_preprocessor
remove_preprocessor(code, should_remove) ==
    IF ~should_remove THEN code ELSE sub_preprocessor(code, 1)

RECURSIVE sub_whitespace(_, _)
\* re.sub(r"\s+", " ", code) from position i on
sub_whitespace(code, i) ==
    IF i > Len(code) THEN <<>>
    ELSE IF IsSpace(code[i])
    THEN <<" ">> \o sub_whitespace(code, run_end(code, i, SpaceSet))
    ELSE <<code[i]>> \o sub_whitespace(code, i + 1)

\* CTokenizer._normalize_whitespace
normalize_whitespace(code, should_normalize) ==
    IF ~should_normalize THEN code ELSE sub_whitespace(code, 1)

\* CTokenizer._match_operator: the length of the longest operator at pos, 0
\* when there is none
match_operator(code, pos) ==
    LET found == {n \in 1..3 : /\ pos + n - 1 <= Len(code)
                               /\ Slice(code, pos, pos + n - 1) \in C_OPERATORS}
    IN  IF found = {} THEN 0 ELSE Max(found)

\* the greatest end among ends before which \b matches, 0 when there is none
last_boundary(code, ends) ==
    IF \E e \in ends : WordBoundaryAt(code, e)
    THEN Max({e \in ends : WordBoundaryAt(code, e)})
    ELSE 0

\* number_pattern.match(code, i): where the match ends, 0 when there is
\* none.  The alternatives are tried in their order:
\*   0[xX][0-9a-fA-F]+ | 0[0-7]* | [0-9]+\.[0-9]* |
\*   [0-9]+\.?[0-9]*[eE][+-]?[0-9]+ | [0-9]+\.?
\* between two \b
number_match(code, i) ==
    LET at(k, chars) == k <= Len(code) /\ code[k] \in chars
        digits(k) == run_end(code, k, DigitSet)
        hex ==
            IF at(i, {"0"}) /\ at(i + 1, {"x", "X"})
            THEN last_boundary(code, (i + 3)..run_end(code, i + 2, HexDigitSet))
            ELSE 0
        octal ==
            IF at(i, {"0"})
            THEN last_boundary(code, (i + 1)..run_end(code, i + 1, OctalDigitSet))
            ELSE 0
        fraction(d1) ==
            IF d1 > i /\ at(d1, {"."})
            THEN last_boundary(code, (d1 + 1)..digits(d1 + 1))
            ELSE 0
        exponent_digits(q) ==
            last_boundary(code, (q + 1)..digits(q))
        exponent_from(p) ==
            IF at(p, {"e", "E"})
            THEN exponent_digits(IF at(p + 1, {"+", "-"}) THEN p + 2 ELSE p + 1)
            ELSE 0
        exponent(d1) ==
            IF d1 = i THEN 0
            ELSE IF at(d1, {"."}) THEN exponent_from(digits(d1 + 1))
            ELSE exponent_from(d1)
        integer(d1) ==
            IF d1 = i THEN 0
            ELSE IF at(d1, {"."}) /\ WordBoundaryAt(code, d1 + 1) THEN d1 + 1
            ELSE IF WordBoundaryAt(code, d1) THEN d1
            ELSE 0
        first(ends) ==
            IF \E k \in 1..Len(ends) : ends[k] > 0
            THEN ends[Min({k \in 1..Len(ends) : ends[k] > 0})]
            ELSE 0
    IN  IF ~WordBoundaryAt(code, i) THEN 0
        ELSE first(<<hex, octal, fraction(digits(i)), exponent(digits(i)),
                     integer(digits(i))>>)

RECURSIVE string_body(_, _, _)
\* the rest (?:\\.|[^"\\])*" of string_pattern from position j on, for the
\* given quote: where the match ends, 0 when there is none
string_body(code, j, quote) ==
    IF j > Len(code) THEN 0
    ELSE IF code[j] = quote THEN j + 1
    ELSE IF code[j] = "\\"
    THEN IF j + 1 <= Len(code) THEN string_body(code, j + 2, quote) ELSE 0
    ELSE string_body(code, j + 1, quote)

\* string_pattern.match(code, i): where the match ends, 0 when there is none
string_match(code, i) ==
    IF code[i] \in {"\"", "'"} THEN string_body(code, i + 1, code[i]) ELSE 0

\* identifier_pattern.match(code, i): where the match ends, 0 when there
\* is none
identifier_match(code, i) ==
    IF WordBoundaryAt(code, i) /\ (IsLetter(code[i]) \/ code[i] = "_")
    THEN run_end(code, i, WordSet)
    ELSE 0

\* the token of the word that identifier_pattern matched
word_token(word, mode) ==
    IF Lower(word) \in C_KEYWORDS THEN Upper(word)
    ELSE IF mode = "structural" THEN TOKEN_ID
    ELSE word

RECURSIVE tokenize_code(_, _, _)
\* CTokenizer._tokenize_code: the tokens from position i on
tokenize_code(code, i, mode) ==
    IF i > Len(code) THEN <<>>
    ELSE IF IsSpace(code[i]) THEN tokenize_code(code, i + 1, mode)
    ELSE IF match_operator(code, i) > 0
    THEN <<Slice(code, i, i + match_operator(code, i) - 1)>>
            \o tokenize_code(code, i + match_operator(code, i), mode)
    ELSE IF number_match(code, i) > 0
    THEN <<TOKEN_NUM>> \o tokenize_code(code, number_match(code, i), mode)
    ELSE IF string_match(code, i) > 0
    THEN <<TOKEN_STR>> \o tokenize_code(code, string_match(code, i), mode)
    ELSE IF identifier_match(code, i) > 0
    THEN <<word_token(Slice(code, i, identifier_match(code, i) - 1), mode)>>
            \o tokenize_code(code, identifier_match(code, i), mode)
    ELSE tokenize_code(code, i + 1, mode)

\* CTokenizer.tokenize_to_list under the settings flags of Config
tokenize_to_list(code, mode, flags) ==
    IF \A i \in 1..Len(code) : IsSpace(code[i]) THEN <<>>
    ELSE tokenize_code(
            normalize_whitespace(
                remove_preprocessor(
                    remove_comments(code, flags.REMOVE_COMMENTS),
                    flags.REMOVE_INCLUDES),
                flags.NORMALIZE_WHITESPACE),
            1, mode)

(***************************************************************************)
(* The similarity engine (plagiarism_detector.py)                          *)
(***************************************************************************)

\* difflib.SequenceMatcher.find_longest_match(alo, ahi, b, blo, bhi) without
\* junk (autojunk only applies to sequences of 200 elements or more):
\* the longest block a[i..i+k-1] = b[j..j+k-1] inside a[alo..ahi-1],
\* b[blo..bhi-1]; of those the one that starts first in a, and of those the
\* one that starts first in b.  k = 0 when nothing matches.
find_longest_match(a, alo, ahi, b, blo, bhi) ==
    LET better(x, y) == \/ x[3] > y[3]
                        \/ (x[3] = y[3] /\ x[1] < y[1])
                        \/ (x[3] = y[3] /\ x[1] = y[1] /\ x[2] < y[2])
        best(blocks) ==
            IF blocks = {} THEN <<alo, blo, 0>>
            ELSE CHOOSE x \in blocks : \A y \in blocks : x = y \/ better(x, y)
    IN  best({blk \in (alo..(ahi - 1)) \X (blo..(bhi - 1)) \X (1..(ahi - alo)) :
                /\ blk[1] + blk[3] <= ahi
                /\ blk[2] + blk[3] <= bhi
                /\ \A x \in 0..(blk[3] - 1) : a[blk[1] + x] = b[blk[2] + x]})

RECURSIVE matching_size(_, _, _, _, _, _)
\* the sum of the sizes of get_matching_blocks(): the longest block, then the
\* same to its left and to its right
matching_size(a, alo, ahi, b, blo, bhi) ==
    LET around(i, j, k) ==
            IF k = 0 THEN 0
            ELSE k
                 + (IF alo < i /\ blo < j THEN matching_size(a, alo, i, b, blo, j) ELSE 0)
                 + (IF i + k < ahi /\ j + k < bhi
                    THEN matching_size(a, i + k, ahi, b, j + k, bhi) ELSE 0)
        size(blk) == around(blk[1], blk[2], blk[3])
    IN  size(find_longest_match(a, alo, ahi, b, blo, bhi))

\* SequenceMatcher(None, a, b).ratio() * 100.0 as the exact fraction num/den
\* (ratio() is 2.0*matches/length, and 1.0 for two empty sequences)
ratio_percent(a, b) ==
    IF Len(a) + Len(b) = 0 THEN [num |-> 100, den |-> 1]
    ELSE [num |-> 200 * matching_size(a, 1, Len(a) + 1, b, 1, Len(b) + 1),
          den |-> Len(a) + Len(b)]

ZeroPercent == [num |-> 0, den |-> 1]

\* tuple(sorted([" ".join(tokens1), " ".join(tokens2)]))
cache_key(tokens1, tokens2) ==
    LET sorted(s1, s2) == IF StrLess(s2, s1) THEN <<s2, s1>> ELSE <<s1, s2>>
    IN  sorted(JoinTokens(tokens1), JoinTokens(tokens2))

\* PlagiarismDetector._calculate_similarity with self.similarity_cache = cache:
\* the value returned
calculate_similarity(tokens1, tokens2, cache) ==
    LET lookup(key) ==
            IF key \in DOMAIN cache THEN cache[key]
            ELSE ratio_percent(JoinTokens(tokens1), JoinTokens(tokens2))
    IN  IF Len(tokens1) = 0 \/ Len(tokens2) = 0 THEN ZeroPercent
        ELSE lookup(cache_key(tokens1, tokens2))

\* ... and self.similarity_cache afterwards
cache_after(tokens1, tokens2, cache) ==
    LET store(key) ==
            IF key \in DOMAIN cache THEN cache
            ELSE [k \in DOMAIN cache \cup {key} |->
                    IF k = key
                    THEN ratio_percent(JoinTokens(tokens1), JoinTokens(tokens2))
                    ELSE cache[k]]
    IN  IF Len(tokens1) = 0 \/ Len(tokens2) = 0 THEN cache
        ELSE store(cache_key(tokens1, tokens2))

\* PlagiarismDetector._is_valid_for_comparison on a file whose
\* tokenize_to_list is student_tokens: (is_valid, token_list)
is_valid_for_comparison(exists, student_tokens, template_tokens, MIN_TOKEN_COUNT) ==
    LET recheck(subtracted) ==
            IF Len(subtracted) < MIN_TOKEN_COUNT
            THEN [valid |-> FALSE, tokens |-> NONE]
            ELSE [valid |-> TRUE, tokens |-> subtracted]
    IN  IF ~exists THEN [valid |-> FALSE, tokens |-> NONE]
        ELSE IF Len(student_tokens) < MIN_TOKEN_COUNT
        THEN [valid |-> FALSE, tokens |-> NONE]
        ELSE IF template_tokens # NONE /\ Len(student_tokens) > 0
        THEN recheck(subtract_template_tokens(student_tokens, template_tokens))
        ELSE [valid |-> TRUE, tokens |-> student_tokens]

\* x >= y for fractions with positive denominators
FracGeq(x, y) == x.num * y.den >= y.num * x.den

\* the threshold, given in thousandths of a percent, as a fraction
Thousandths(t) == [num |-> t, den |-> 1000]

\* round(x, 2) in hundredths: the nearest hundredth, a tie going to the even
\* one (a tie of two decimals is exact in binary only when x is a multiple
\* of 1/8, where round() is round-half-even)
round2(x) ==
    LET nearest(f, r) ==
            IF 2 * r > x.den THEN f + 1
            ELSE IF 2 * r < x.den THEN f
            ELSE IF f % 2 = 0 THEN f ELSE f + 1
    IN  nearest((100 * x.num) \div x.den, (100 * x.num) % x.den)

(***************************************************************************)
(* Files, directories and the detector's pass over one question            *)
(*                                                                         *)
(* A file system is a function from paths to file contents.  A C file is   *)
(* represented by the token stream tokenize_to_list yields for its text.   *)
(* A dict is the sequence of its entries in insertion order.               *)
(***************************************************************************)

\* os.path.join(a, b) for a relative b
path_join(a, b) == a \o <<"/">> \o b

\* the sequences that list every element of S once: the orders in which
\* os.listdir and os.walk may yield the entries of a directory
Perms(S) ==
    {order \in [1..Cardinality(S) -> S] :
        \A i, j \in 1..Cardinality(S) : i # j => order[i] # order[j]}

\* file_name.endswith(tuple(ACCEPTED_EXTENSIONS))
ends_with_accepted(file_name) ==
    \E e \in 1..Len(ACCEPTED_EXTENSIONS) :
        OccursAt(file_name, Len(file_name) - Len(ACCEPTED_EXTENSIONS[e]) + 1,
                 ACCEPTED_EXTENSIONS[e])

\* os.path.join(output_dir, f"Q{question_num}") of detect_plagiarism_all_questions,
\* taken for the first question whatever question_num is
question_dir_first(output_dir, question_num) ==
    path_join(output_dir, <<"Q">> \o IntToStr(1))

\* os.path.join(output_dir, f"Q{question_num}") of detect_plagiarism_all_questions
question_dir(output_dir, question_num) ==
    path_join(output_dir, <<"Q">> \o IntToStr(question_num))

\* dest_dir of organize_student_files
dest_dir(output_dir, question_num) ==
    path_join(output_dir, <<"Q">> \o IntToStr(question_num))

\* dest_file of organize_student_files
dest_file(output_dir, question_num, student_id) ==
    path_join(dest_dir(output_dir, question_num), student_id \o <<".", "c">>)

\* _is_valid_for_comparison(file_path) on the file system fs
valid_file(fs, file_path, template_tokens, MIN_TOKEN_COUNT) ==
    is_valid_for_comparison(file_path \in DOMAIN fs,
                            IF file_path \in DOMAIN fs THEN fs[file_path] ELSE <<>>,
                            template_tokens, MIN_TOKEN_COUNT)

\* PlagiarismDetector.compare_two_files: the similarity returned and the
\* similarity cache afterwards
compare_two_files(fs, file1_path, file2_path, template_tokens, MIN_TOKEN_COUNT, cache) ==
    LET compare(v1, v2) ==
            IF ~v1.valid \/ ~v2.valid \/ Len(v1.tokens) = 0 \/ Len(v2.tokens) = 0
            THEN [similarity |-> ZeroPercent, cache |-> cache]
            ELSE [similarity |-> calculate_similarity(v1.tokens, v2.tokens, cache),
                  cache      |-> cache_after(v1.tokens, v2.tokens, cache)]
    IN  compare(valid_file(fs, file1_path, template_tokens, MIN_TOKEN_COUNT),
                valid_file(fs, file2_path, template_tokens, MIN_TOKEN_COUNT))

RECURSIVE collect_student_files(_, _, _, _, _, _)
\* the dict student_files after the loop over os.listdir(question_dir), from
\* the k-th listed name on: student id -> path, for the valid files
collect_student_files(fs, q_dir, names, k, template_tokens, MIN_TOKEN_COUNT) ==
    LET add(file_name, student_id, file_path, rest) ==
            IF  /\ ends_with_accepted(file_name)
                /\ valid_file(fs, file_path, template_tokens, MIN_TOKEN_COUNT).valid
            THEN IF \E x \in 1..Len(rest) : rest[x].student_id = student_id
                 THEN \* a later file of the same id replaces the path, the key
                      \* keeps its place
                      <<[student_id |-> student_id,
                         path |-> (CHOOSE x \in Range(rest) :
                                        x.student_id = student_id).path]>>
                      \o SelectSeq(rest, LAMBDA x : x.student_id # student_id)
                 ELSE <<[student_id |-> student_id, path |-> file_path]>> \o rest
            ELSE rest
    IN  IF k > Len(names) THEN <<>>
        ELSE add(names[k], splitext_root(names[k]), path_join(q_dir, names[k]),
                 collect_student_files(fs, q_dir, names, k + 1,
                                       template_tokens, MIN_TOKEN_COUNT))

\* the pairs (i, j), i < j, in the order of the two nested loops
index_pairs(n) ==
    LET count == (n * (n - 1)) \div 2
        nth(k) == CHOOSE p \in (1..n) \X (1..n) :
                    /\ p[1] < p[2]
                    /\ Cardinality({r \in (1..n) \X (1..n) :
                            /\ r[1] < r[2]
                            /\ (r[1] < p[1] \/ (r[1] = p[1] /\ r[2] < p[2]))}) = k - 1
    IN  Tuple([k \in 1..count |-> nth(k)])

RECURSIVE compare_pairs(_, _, _, _, _, _, _, _, _)
\* the double loop of detect_plagiarism_in_question from the k-th pair on;
\* acc holds plagiarism_cases, the similarity cache, and the calls of
\* compare_two_files made
compare_pairs(fs, student_files, pairs, k, question_num, threshold, template_tokens, MIN_TOKEN_COUNT, acc) ==
    LET record(one, two, r) ==
            [cases |-> IF FracGeq(r.similarity, Thousandths(threshold))
                       THEN Append(acc.cases,
                                [question   |-> question_num,
                                 student1   |-> one.student_id,
                                 student2   |-> two.student_id,
                                 similarity |-> round2(r.similarity),
                                 file1      |-> one.path,
                                 file2      |-> two.path])
                       ELSE acc.cases,
             cache |-> r.cache,
             calls |-> Append(acc.calls,
                              [question |-> question_num,
                               file1 |-> one.path, file2 |-> two.path,
                               similarity |-> r.similarity])]
        step(one, two) ==
            record(one, two,
                   compare_two_files(fs, one.path, two.path, template_tokens,
                                     MIN_TOKEN_COUNT, acc.cache))
    IN  IF k > Len(pairs) THEN acc
        ELSE compare_pairs(fs, student_files, pairs, k + 1, question_num, threshold,
                           template_tokens, MIN_TOKEN_COUNT,
                           step(student_files[pairs[k][1]], student_files[pairs[k][2]]))

\* PlagiarismDetector.detect_plagiarism_in_question(q_dir, question_num) when
\* os.listdir(q_dir) yields names: the cases returned, the cache afterwards
\* and the calls of compare_two_files made
detect_plagiarism_in_question(fs, dirs, q_dir, names, question_num, threshold, template_tokens, MIN_TOKEN_COUNT, cache) ==
    LET nothing == [cases |-> <<>>, cache |-> cache, calls |-> <<>>]
        compare(student_files) ==
            IF Len(student_files) < 2 THEN nothing
            ELSE compare_pairs(fs, student_files, index_pairs(Len(student_files)), 1,
                               question_num, threshold, template_tokens,
                               MIN_TOKEN_COUNT, nothing)
    IN  IF q_dir \notin dirs THEN nothing
        ELSE compare(collect_student_files(fs, q_dir, names, 1,
                                           template_tokens, MIN_TOKEN_COUNT))

\* the names os.listdir(dir) yields, as a set
listdir(fs, dir) == {basename(f) : f \in {x \in DOMAIN fs : dirname(x) = dir}}

(***************************************************************************)
(* Configuration (config.py)                                               *)
(***************************************************************************)

\* validate_config without the check of MIN_TOKEN_COUNT
validate_config_lenient(c) ==
    (IF ~c.root_exists THEN {"Input path does not exist"} ELSE {})
    \cup (IF c.NUM_QUESTIONS < 1 THEN {"Number of questions must be at least 1"} ELSE {})
    \cup (IF ~(0 <= c.SIMILARITY_THRESHOLD /\ c.SIMILARITY_THRESHOLD <= 100 * 1000)
          THEN {"Similarity threshold must be between 0 and 100"} ELSE {})

\* Config.validate_config on a configuration: the set of errors
validate_config(c) ==
    (IF ~c.root_exists THEN {"Input path does not exist"} ELSE {})
    \cup (IF c.NUM_QUESTIONS < 1 THEN {"Number of questions must be at least 1"} ELSE {})
    \cup (IF ~(0 <= c.SIMILARITY_THRESHOLD /\ c.SIMILARITY_THRESHOLD <= 100 * 1000)
          THEN {"Similarity threshold must be between 0 and 100"} ELSE {})
    \cup (IF c.MIN_TOKEN_COUNT < 1 THEN {"Minimum token count must be positive"} ELSE {})

\* the directories Config.initialize_directories makes
initialize_directories(output_dir, logs_dir, NUM_QUESTIONS) ==
    {output_dir, logs_dir}
    \cup {path_join(output_dir, <<"Q">> \o IntToStr(q_num)) : q_num \in 1..NUM_QUESTIONS}

(***************************************************************************)
(* The archive extractor (extractor.py)                                    *)
(***************************************************************************)

\* ZipExtractor._should_ignore
should_ignore(path) ==
    \E k \in 1..Len(IGNORE_PATTERNS) : Find(Lower(path), Lower(IGNORE_PATTERNS[k])) > 0

\* the directories above a relative path, as paths under base
parent_dirs(base, rel) ==
    LET parts == Split(rel, "/")
    IN  {path_join(base, Join(SubSeq(parts, 1, n), <<"/">>)) : n \in 1..(Len(parts) - 1)}

\* what extract_student_zips_to_temp leaves in the scratch directory for a
\* submission: the members of a readable archive that are not ignored; of a
\* directory without archive, the files with an accepted extension outside
\* ignored directories, under their relative paths; nothing of a corrupt
\* archive
extracted_files(student_dir, submission) ==
    IF submission.archive = "ok"
    THEN [m \in {x \in DOMAIN submission.members : ~should_ignore(x)} |->
            submission.members[m]]
    ELSE IF submission.archive = "bad" THEN <<>>
    ELSE [f \in {x \in DOMAIN submission.loose :
                    /\ \E e \in 1..Len(ACCEPTED_EXTENSIONS) :
                            ACCEPTED_EXTENSIONS[e] = Lower(splitext_ext(x))
                    /\ \A d \in parent_dirs(student_dir, x) : ~should_ignore(d)} |->
            submission.loose[f]]

\* the entries _log_error appends for a submission
extraction_errors(student_id, submission) ==
    IF submission.archive = "bad"
    THEN <<[message |-> "extract", student_id |-> student_id]>>
    ELSE IF submission.archive = "ok" /\ DOMAIN extracted_files(<<>>, submission) = {}
    THEN <<[message |-> "empty", student_id |-> student_id]>>
    ELSE <<>>

(***************************************************************************)
(* ZipExtractor.extract_zip (extractor.py), member by member               *)
(***************************************************************************)

MAX_EXTRACTION_DEPTH == 10

ZIP_EXTENSIONS == << <<".", "z", "i", "p">>, <<".", "r", "a", "r">>, <<".", "7", "z">> >>

\* the optional packages for .rar and .7z are not installed
PATOOLIB_AVAILABLE == FALSE

RARFILE_AVAILABLE == FALSE

\* a file that is no archive, and the content of a .zip archive
PlainFile == [kind |-> "file", members |-> <<>>]

ZipOf(members) == [kind |-> "zip", members |-> members]

Member(name, data) == [name |-> name, data |-> data]

\* os.path.join(extract_to, member): an absolute member replaces the target
os_path_join(a, b) == IF Len(b) > 0 /\ b[1] = "/" THEN b ELSE a \o <<"/">> \o b

\* path lies below the directory dir
under(dir, path) ==
    Len(path) > Len(dir) + 1 /\ SubSeq(path, 1, Len(dir) + 1) = dir \o <<"/">>

RECURSIVE resolve_parts(_, _, _, _)
\* the components the file system walks for a path: '' and '.' stay in
\* place, '..' leaves the directory reached so far
resolve_parts(parts, k, absolute, acc) ==
    IF k > Len(parts) THEN acc
    ELSE IF parts[k] \in {<<>>, <<".">>}
    THEN resolve_parts(parts, k + 1, absolute, acc)
    ELSE IF parts[k] # <<".", ".">>
    THEN resolve_parts(parts, k + 1, absolute, Append(acc, parts[k]))
    ELSE IF Len(acc) > 0 /\ acc[Len(acc)] # <<".", ".">>
    THEN resolve_parts(parts, k + 1, absolute, SubSeq(acc, 1, Len(acc) - 1))
    ELSE IF absolute
    THEN resolve_parts(parts, k + 1, absolute, acc)
    ELSE resolve_parts(parts, k + 1, absolute, Append(acc, parts[k]))

\* the file a path names (os.path.isfile, os.path.exists, os.path.abspath
\* of an absolute path)
resolve(path) ==
    LET absolute == Len(path) > 0 /\ path[1] = "/"
    IN  (IF absolute THEN <<"/">> ELSE <<>>)
            \o Join(resolve_parts(Split(path, "/"), 1, absolute, <<>>), <<"/">>)

\* the name under which zip_ref.extract writes a member below the target:
\* the member's components without '', '.' and '..'
zip_arcname(member) ==
    Join(SelectSeq(Split(member, "/"),
                   LAMBDA part : part \notin {<<>>, <<".">>, <<".", ".">>}),
         <<"/">>)

\* zip_ref.extract raises: a directory of the target path is a file, or the
\* target path is a directory
extract_raises(fs, extract_to, arcname) ==
    \/ arcname = <<>>
    \/ \E d \in parent_dirs(extract_to, arcname) : d \in DOMAIN fs
    \/ \E p \in DOMAIN fs : under(path_join(extract_to, arcname), p)

\* ZipExtractor._log_error
log_error(st, message, student_id, file_path) ==
    [st EXCEPT !.log = Append(@, [message |-> message, student_id |-> student_id,
                                  file_path |-> file_path])]

\* tempfile.mkdtemp(dir=extract_to)
nested_temp_dir(extract_to) == path_join(extract_to, <<"t", "m", "p", "k", "w", "x", "y">>)

\* the files of the nested directory moved to the same relative paths
\* below extract_to
move_nested(fs, nested, extract_to) ==
    LET dst(src) == path_join(extract_to, Slice(src, Len(nested) + 2, Len(src)))
        moved(srcs) ==
            [p \in ((DOMAIN fs) \ srcs) \cup {dst(q) : q \in srcs} |->
                IF \E q \in srcs : dst(q) = p
                THEN fs[CHOOSE q \in srcs : dst(q) = p]
                ELSE fs[p]]
    IN  moved({p \in DOMAIN fs : under(nested, p)})

\* shutil.rmtree(dir, ignore_errors=True)
rmtree(fs, dir) == [p \in {q \in DOMAIN fs : ~under(dir, q)} |-> fs[p]]

\* os.remove(path) of a file that exists
remove(fs, path) == [p \in (DOMAIN fs) \ {path} |-> fs[p]]

\* the file written at path
write_file(fs, path, data) ==
    [p \in (DOMAIN fs) \cup {path} |-> IF p = path THEN data ELSE fs[p]]

\* the members ZipFile reads from a file: an archive may hold a copy of
\* itself as its only member
namelist(data) ==
    IF data.kind = "quine" THEN <<[name |-> <<"r", ".", "z", "i", "p">>, data |-> data]>>
    ELSE data.members

\* zip_ref.extract(member, ...) looks the name up: of several members with
\* one name, the last
getinfo(members, name) ==
    members[Max({i \in 1..Len(members) : members[i].name = name})]

\* extract_zip refuses without depth check
never_too_deep(depth) == FALSE

\* extract_zip refuses: depth > MAX_EXTRACTION_DEPTH
too_deep(depth) == depth > MAX_EXTRACTION_DEPTH

\* the frame of a call of extract_zip: its arguments, the members of the
\* opened archive and the index k of the member the loop is at, the member
\* whose nested archive is being extracted, what that extraction returned
Frame(zip_path, extract_to, student_id, depth) ==
    [zip_path |-> zip_path, extract_to |-> extract_to,
     student_id |-> student_id, depth |-> depth,
     at |-> "enter", members |-> <<>>, k |-> 0,
     extracted_path |-> <<>>, nested_ok |-> FALSE]

\* the call stack after the innermost call returned ok
returned(stack, ok) ==
    IF Len(stack) = 1 THEN <<>>
    ELSE [SubSeq(stack, 1, Len(stack) - 1) EXCEPT
            ![Len(stack) - 1].at = "returned",
            ![Len(stack) - 1].nested_ok = ok]

\* extract_zip up to its loop: [ok: "True" or "False" when the call returns
\* at once, "open" when the archive was opened, st: the extractor after it]
enter_extract_zip(f, st) ==
    LET opened(data, file_ext) ==
            IF file_ext = ZIP_EXTENSIONS[1]
            THEN IF data.kind = "file"
                 THEN [ok |-> "False", st |-> log_error(st, "not a zip file", f.student_id, f.zip_path)]
                 ELSE [ok |-> "open",
                       st |-> [st EXCEPT !.opened =
                                Append(@, [zip_path |-> f.zip_path, depth |-> f.depth])]]
            ELSE IF file_ext \in {ZIP_EXTENSIONS[2], ZIP_EXTENSIONS[3]}
                    /\ ~PATOOLIB_AVAILABLE /\ ~RARFILE_AVAILABLE
            THEN [ok |-> "False", st |-> log_error(st, "not supported", f.student_id, f.zip_path)]
            ELSE [ok |-> "False", st |-> log_error(st, "unsupported type", f.student_id, f.zip_path)]
    IN  IF too_deep(f.depth)
        THEN [ok |-> "False", st |-> log_error(st, "depth", f.student_id, f.zip_path)]
        ELSE IF resolve(f.zip_path) \in st.extracted_files
        THEN [ok |-> "True", st |-> st]
        ELSE IF resolve(f.zip_path) \notin DOMAIN st.fs
        THEN [ok |-> "False", st |-> log_error(st, "missing", f.student_id, f.zip_path)]
        ELSE opened(st.fs[resolve(f.zip_path)], Lower(splitext_ext(f.zip_path)))

\* the loop body up to the recursive call, for a member that is not
\* ignored: [nested: the member is an archive to extract, st]
extract_member(f, member, st) ==
    LET extracted(after) ==
            [nested |-> /\ resolve(os_path_join(f.extract_to, member.name)) \in DOMAIN after.fs
                        /\ Lower(splitext_ext(os_path_join(f.extract_to, member.name)))
                                \in Range(ZIP_EXTENSIONS),
             st |-> after]
        target(arcname) ==
            IF extract_raises(st.fs, f.extract_to, arcname)
            THEN [nested |-> FALSE, st |-> log_error(st, "member", f.student_id, f.zip_path)]
            ELSE extracted(
                    [st EXCEPT
                        !.fs = write_file(@, path_join(f.extract_to, arcname), member.data),
                        !.written = Append(@, [zip_path |-> f.zip_path,
                                               depth |-> f.depth,
                                               member |-> member.name,
                                               extract_to |-> f.extract_to,
                                               path |-> path_join(f.extract_to, arcname)])])
    IN  target(zip_arcname(member.name))

\* the loop body after the recursive call returned: the nested files moved
\* up, the nested directory and the nested archive removed
after_nested(f, fs) ==
    LET cleaned(fs2) ==
            IF resolve(f.extracted_path) \in DOMAIN fs2
            THEN remove(fs2, resolve(f.extracted_path))
            ELSE fs2
    IN  cleaned(rmtree(IF f.nested_ok
                       THEN move_nested(fs, nested_temp_dir(f.extract_to), f.extract_to)
                       ELSE fs,
                       nested_temp_dir(f.extract_to)))

(***************************************************************************)
(* Clusters and statistics of a case list (plagiarism_detector.py)         *)
(***************************************************************************)

\* networkx is not installed
NETWORKX_AVAILABLE == FALSE

\* the keys of the dict connections in insertion order: the students in the
\* order in which the cases first name them
RECURSIVE connection_keys(_, _, _)
connection_keys(cases, k, keys) ==
    LET add(key, ks) == IF key \in Range(ks) THEN ks ELSE Append(ks, key)
    IN  IF k > Len(cases) THEN keys
        ELSE connection_keys(cases, k + 1,
                add(cases[k].student2, add(cases[k].student1, keys)))

\* connections[student]: the students some case pairs with student
connections(cases, student) ==
    {cases[i].student2 : i \in {j \in 1..Len(cases) : cases[j].student1 = student}}
        \cup {cases[i].student1 : i \in {j \in 1..Len(cases) : cases[j].student2 = student}}

RECURSIVE dfs(_, _, _)
RECURSIVE dfs_connected(_, _, _)
\* dfs(student, current_cluster) of _find_clusters_simple: the set visited
\* after the call
dfs(cases, student, visited) ==
    IF student \in visited THEN visited
    ELSE dfs_connected(cases, connections(cases, student), visited \cup {student})

\* the loop of dfs over connections[student]; the order in which the set
\* yields its elements is not fixed
dfs_connected(cases, todo, visited) ==
    LET next(connected) ==
            dfs_connected(cases, todo \ {connected},
                IF connected \notin visited THEN dfs(cases, connected, visited)
                ELSE visited)
    IN  IF todo = {} THEN visited
        ELSE next(CHOOSE connected \in todo : TRUE)

\* sorted(list(cluster))
sorted_students(cluster) ==
    CHOOSE order \in Perms(cluster) :
        \A i \in 1..(Len(order) - 1) : StrLess(order[i], order[i + 1])

RECURSIVE clusters_from(_, _, _, _, _)
\* the loop of _find_clusters_simple over the keys of connections from key
\* k on
clusters_from(cases, keys, k, visited, clusters) ==
    LET found(cluster) ==
            clusters_from(cases, keys, k + 1, visited \cup cluster,
                IF Cardinality(cluster) > 1
                THEN Append(clusters, [students |-> sorted_students(cluster),
                                       size |-> Cardinality(cluster),
                                       cluster_id |-> Len(clusters) + 1])
                ELSE clusters)
    IN  IF k > Len(keys) THEN clusters
        ELSE IF keys[k] \in visited
        THEN clusters_from(cases, keys, k + 1, visited, clusters)
        ELSE found(dfs(cases, keys[k], visited) \ visited)

\* PlagiarismDetector._find_clusters_simple
find_clusters_simple(plagiarism_cases) ==
    clusters_from(plagiarism_cases, connection_keys(plagiarism_cases, 1, <<>>), 1, {}, <<>>)

\* one cluster for every case, whatever other cases connect
find_clusters_pairwise(plagiarism_cases) ==
    [i \in 1..Len(plagiarism_cases) |->
        [students |-> sorted_students({plagiarism_cases[i].student1,
                                       plagiarism_cases[i].student2}),
         size |-> 2,
         cluster_id |-> i]]

\* PlagiarismDetector.find_clusters; with networkx the components come from
\* nx.connected_components, which walks the nodes in the order add_edge
\* inserted them
find_clusters(plagiarism_cases) ==
    IF ~NETWORKX_AVAILABLE THEN find_clusters_simple(plagiarism_cases)
    ELSE clusters_from(plagiarism_cases,
                       connection_keys(plagiarism_cases, 1, <<>>), 1, {}, <<>>)

\* PlagiarismDetector.get_statistics; similarities in hundredths of a percent
get_statistics(plagiarism_cases) ==
    [total_cases |-> Len(plagiarism_cases),
     by_question |->
        [q \in {plagiarism_cases[i].question : i \in 1..Len(plagiarism_cases)} |->
            Cardinality({i \in 1..Len(plagiarism_cases) : plagiarism_cases[i].question = q})],
     by_student |->
        [st \in {plagiarism_cases[i].student1 : i \in 1..Len(plagiarism_cases)}
                \cup {plagiarism_cases[i].student2 : i \in 1..Len(plagiarism_cases)} |->
            Cardinality({i \in 1..Len(plagiarism_cases) : plagiarism_cases[i].student1 = st})
                + Cardinality({i \in 1..Len(plagiarism_cases) : plagiarism_cases[i].student2 = st})],
     similarity_distribution |->
        [b85_90 |-> Cardinality({i \in 1..Len(plagiarism_cases) :
                        8500 <= plagiarism_cases[i].similarity /\ plagiarism_cases[i].similarity < 9000}),
         b90_95 |-> Cardinality({i \in 1..Len(plagiarism_cases) :
                        9000 <= plagiarism_cases[i].similarity /\ plagiarism_cases[i].similarity < 9500}),
         b95_99 |-> Cardinality({i \in 1..Len(plagiarism_cases) :
                        9500 <= plagiarism_cases[i].similarity /\ plagiarism_cases[i].similarity < 9900}),
         b99_100 |-> Cardinality({i \in 1..Len(plagiarism_cases) :
                        plagiarism_cases[i].similarity >= 9900})],
     clusters |-> find_clusters(plagiarism_cases)]

(***************************************************************************)
(* Inputs of the model: student ids, scratch directory names, file names   *)
(***************************************************************************)

\* the longest generated file stem
MaxStemLen == 3

\* the most source files in a student directory given to map_student_files
MaxFiles == 2

StudentPool == << <<"b", "o", "b">>, <<"a", "n", "n">>, <<"u", "2">> >>

\* the random part of a tempfile.mkdtemp name is drawn from [a-z0-9_]
RandomSuffixes == { <<"x", "y", "k", "w", "x", "y", "k", "w">>,
                    <<"2", "_", "k", "w", "x", "y", "k", "w">> }

TempRoot == <<"/", "t", "m", "p">>

\* tempfile.mkdtemp(prefix=f'mastergrader_{student_id}_') with random part rnd
mkdtemp(student_id, rnd) ==
    TempRoot \o <<"/", "m", "a", "s", "t", "e", "r", "g", "r", "a", "d", "e", "r", "_">>
             \o student_id \o <<"_">> \o rnd

DOT_C == <<".", "c">>

StemChars == {"q", "x", "1", "2", "0", "_", "-", "/"}

\* a relative path as os.walk yields it: no empty component
IsRelPath(stem) ==
    /\ Len(stem) > 0
    /\ stem[1] # "/"
    /\ stem[Len(stem)] # "/"
    /\ \A i \in 1..(Len(stem) - 1) : ~(stem[i] = "/" /\ stem[i + 1] = "/")

GeneratedStems ==
    {st \in UNION {[1..n -> StemChars] : n \in 1..MaxStemLen} : IsRelPath(st)}

NAME_q1_q2_common == <<"q", "1", "_", "q", "2", "_", "c", "o", "m", "m", "o", "n", ".", "c">>

\* named files, beside the generated ones
SampleFiles ==
    { NAME_q1_q2_common,
      <<"q", "1", ".", "c">>,
      <<"Q", "2", ".", "C">>,
      <<"q", "1", ".", "t", "x", "t">>,
      <<"m", "a", "i", "n", ".", "c">>,
      <<"s", "o", "a", "l", "1", "/", "m", "a", "i", "n", ".", "h">>,
      <<"q", "1", "/", "q", "2", ".", "c">>,
      <<"e", "x", "1", "2", ".", "c", "p", "p">>,
      <<"1", "2", "/", "a", ".", "c">>,
      <<"(", "1", ")", "[", "2", "]", ".", "c">>,
      <<".", "g", "i", "t", "/", "q", "2", ".", "c">> }

RelPaths == {st \o DOT_C : st \in GeneratedStems} \cup SampleFiles

\* the scratch directories the mapper is shown
ScratchDirs == { mkdtemp(StudentPool[2], <<"x", "y", "k", "w", "x", "y", "k", "w">>),
                 mkdtemp(StudentPool[3], <<"2", "_", "k", "w", "x", "y", "k", "w">>) }

\* Config.NUM_QUESTIONS of the mapper runs
QuestionCounts == {2, 12}

(***************************************************************************)
(* Inputs of the pipeline: configurations and student submissions          *)
(***************************************************************************)

\* the most student directories under the root
MaxStudents == 2

\* the most environment failures (a raised exception, a vanished directory)
\* in one run
MaxFaults == 1

\* Config.ROOT_DIR, Config.OUTPUT_DIR and Config.LOGS_DIR of the runs
ROOT_DIR == <<"r", "o", "o", "t">>

OUTPUT_DIR == <<"o", "u", "t">>

LOGS_DIR == <<"l", "o", "g", "s">>

TOK_a == <<"a">>

TOK_b == <<"b">>

TOK_c == <<"c">>

TOK_d == <<"d">>

\* the token stream of the template file
TemplateTokens == <<TOK_a, TOK_b>>

\* token streams of student files
Stream_ab == <<TOK_a, TOK_b>>

Stream_abc == <<TOK_a, TOK_b, TOK_c>>

Stream_cd == <<TOK_c, TOK_d>>

FILE_q1 == <<"q", "1", ".", "c">>

FILE_q2 == <<"q", "2", ".", "c">>

NoFiles == [f \in {} |-> <<>>]

\* a student directory: its archive ("none", "ok" readable, "bad" corrupt),
\* the members of the archive and the files beside it
Submissions ==
    { [archive |-> "none", members |-> NoFiles,
       loose |-> (FILE_q1 :> Stream_ab @@ FILE_q2 :> Stream_cd)],
      [archive |-> "none", members |-> NoFiles,
       loose |-> (FILE_q1 :> Stream_ab @@ FILE_q2 :> Stream_abc)],
      [archive |-> "ok",
       members |-> (FILE_q1 :> Stream_abc @@ FILE_q2 :> Stream_ab),
       loose |-> (FILE_q1 :> Stream_cd)],
      [archive |-> "bad", members |-> NoFiles,
       loose |-> (FILE_q1 :> Stream_ab)] }

\* similarity thresholds in thousandths of a percent: -0.001, 0, 33.331, 75,
\* 100, 100.001
Thresholds == {0 - 1, 0, 33331, 75000, 100000, 100001}

Configs ==
    [root_exists : BOOLEAN,
     NUM_QUESTIONS : {0, 1, 2},
     SIMILARITY_THRESHOLD : Thresholds,
     MIN_TOKEN_COUNT : {0, 1, 2},
     template : {NONE, TemplateTokens}]

\* the configurations under which roots of several students are run
MainConfigs ==
    {c \in Configs : /\ c.root_exists
                     /\ c.NUM_QUESTIONS = 2
                     /\ c.SIMILARITY_THRESHOLD \in {33331, 75000}
                     /\ c.MIN_TOKEN_COUNT = 2}

\* the student directories of the root: at most MaxStudents ids of the pool,
\* with a submission each
Roots ==
    UNION {[ids -> Submissions] :
            ids \in SUBSET {StudentPool[i] : i \in 1..MaxStudents}}

\* the configuration while only the mapper runs
DefaultConfig ==
    [root_exists |-> TRUE, NUM_QUESTIONS |-> 2, SIMILARITY_THRESHOLD |-> 50000,
     MIN_TOKEN_COUNT |-> 1, template |-> NONE]

(***************************************************************************)
(* State                                                                   *)
(***************************************************************************)

VARIABLES
    m_N,          \* mapper: Config.NUM_QUESTIONS when the FileMapper was built
    m_call,       \* mapper: "file" / "student": the call to make; "..._done" after it
    m_path,       \* mapper: the argument file_path or student_dir of the call
    m_exists,     \* mapper: os.path.exists of that argument
    m_result,     \* mapper: what map_file_to_question returned
    m_files,      \* mapper: the files under student_dir, in os.walk order
    m_mapping,    \* mapper: final_mapping returned by map_student_files
    m_warnings,   \* mapper: self.warnings
    cfg,          \* Config of the run (template: the template's token stream)
    root,         \* the student directories of ROOT_DIR: id -> submission
    pc,           \* where MasterGrader.run is
    ret,          \* what run returned: "True" or "False", "running" until then
    listing,      \* extract_student_submissions: the rest of os.listdir(root_dir)
    results,      \* extract_student_submissions: its dict results
    extraction_results,    \* self.extraction_results
    temp_dirs,             \* self.temp_dirs
    scratch,      \* the existing scratch directories: path -> files
    created,      \* every path tempfile.mkdtemp returned in this run
    org_todo,     \* organize_all_students: the students still to organize
    org_results,  \* organize_all_students: its dict results
    organization_results,  \* self.organization_results
    out_dirs,     \* the directories that exist under the output and log paths
    out_files,    \* the files under OUTPUT_DIR: path -> token stream
    question_num, \* detect_plagiarism_all_questions: the question to check next
    similarity_cache,      \* detector.similarity_cache
    all_plagiarism_cases,  \* detect_plagiarism_all_questions: its list
    plagiarism_cases,      \* self.plagiarism_cases
    calls,        \* every call of compare_two_files made, with its result
    log_entries,  \* self.log_entries
    reported,     \* the reports and the log file have been written
    faults,       \* environment failures so far
    x_call,       \* extractor: "zip": the call of extract_zip to make; "done" after it
    x_stack,      \* extractor: the frames of the calls of extract_zip under way
    x_zip_path,   \* extractor: the argument zip_path
    x_extract_to, \* extractor: the argument extract_to
    x_depth,      \* extractor: the argument depth
    x_ret,        \* extractor: what extract_zip returned
    x_st,         \* extractor: the files on disk (fs), failed_extractions as
                  \* passed to log_callback (log), extracted_files, every
                  \* archive ZipFile opened (opened), every file
                  \* zip_ref.extract wrote (written)
    d_on,         \* detector: a PlagiarismDetector of its own is in use
    d_fs,         \* detector: the files on disk: path -> token stream
    d_template,   \* detector: self.template_tokens
    d_min,        \* detector: Config.MIN_TOKEN_COUNT
    d_cache,      \* detector: self.similarity_cache
    d_calls,      \* detector: every call of compare_two_files, with its result
    r_cases,      \* report: the case list find_clusters and get_statistics are given
    r_done,       \* report: which of the two have been called
    r_clusters,   \* report: what find_clusters returned
    r_stats,      \* report: what get_statistics returned
    g_Config,     \* runs: the class attributes config.Config.ROOT_DIR, OUTPUT_DIR,
                  \* SIMILARITY_THRESHOLD and TEMPLATE_CODE_PATH
    g_runs,       \* runs: of every MasterGrader its position (pc), the settings
                  \* in force when it was constructed (own) and what its
                  \* stages read (used)
    t_call,       \* tokenizer: "tokenize" / "subtract": the call to make;
                  \* "..._done" after it
    t_code,       \* tokenizer: the argument code of tokenize_to_list
    t_mode,       \* tokenizer: the argument mode of tokenize_to_list
    t_flags,      \* tokenizer: Config.REMOVE_COMMENTS, REMOVE_INCLUDES and
                  \* NORMALIZE_WHITESPACE
    t_student,    \* tokenizer: the argument student_tokens
    t_template,   \* tokenizer: the argument template_tokens
    t_tokens,     \* tokenizer: the list the call returned
    s_pc,         \* submissions: where extract_student_submissions is
    s_listing,    \* submissions: the rest of os.listdir(root_dir)
    s_student_id, \* submissions: the student being extracted
    s_temp_dir,   \* submissions: student_temp_dir
    s_files,      \* submissions: the files os.walk(student_dir) has yet to yield
    s_dir,        \* submissions: the directory os.walk(student_dir) is at
    s_walk_root,  \* submissions: the local variable root
    s_zip_files_found,     \* submissions: the local variable zip_files_found
    s_file_path,  \* submissions: file_path of the archive being extracted
    s_results,    \* submissions: the dict results, in insertion order
    earlier_runs, \* the runs that used the output directory before this one
    a_pc,         \* api: where process_submission_batch is
    a_upload,     \* api: the arguments filename and file_stream
    a_settings,   \* api: the argument settings
    a_Config,     \* api: the class attributes of config.Config
    a_before,     \* api: config.Config when process_submission_batch was called
    a_snapshot,   \* api: the local variable snapshot
    a_raised      \* api: the exception under way or raised, "none" without

mvars == <<m_N, m_call, m_path, m_exists, m_result, m_files, m_mapping, m_warnings>>

pvars == <<cfg, root, pc, ret, listing, results, extraction_results, temp_dirs,
           scratch, created, org_todo, org_results, organization_results,
           out_dirs, out_files, question_num, similarity_cache,
           all_plagiarism_cases, plagiarism_cases, calls, log_entries,
           reported, faults>>

xvars == <<x_call, x_stack, x_zip_path, x_extract_to, x_depth, x_ret, x_st>>

dvars == <<d_on, d_fs, d_template, d_min, d_cache, d_calls>>

rvars == <<r_cases, r_done, r_clusters, r_stats>>

gvars == <<g_Config, g_runs>>

tvars == <<t_call, t_code, t_mode, t_flags, t_student, t_template, t_tokens>>

svars == <<s_pc, s_listing, s_student_id, s_temp_dir, s_files, s_dir, s_walk_root,
           s_zip_files_found, s_file_path, s_results>>

avars == <<a_pc, a_upload, a_settings, a_Config, a_before, a_snapshot, a_raised>>

vars == <<mvars, pvars, xvars, dvars, rvars, gvars, tvars, svars, earlier_runs, avars>>

\* extract_student_submissions is not under way
SubmissionsIdle ==
    /\ s_pc = "idle"
    /\ s_listing = <<>>
    /\ s_student_id = <<>>
    /\ s_temp_dir = <<>>
    /\ s_files = <<>>
    /\ s_dir = <<>>
    /\ s_walk_root = <<>>
    /\ s_zip_files_found = FALSE
    /\ s_file_path = <<>>
    /\ s_results = <<>>

\* the settings of config.py that the tokenizer reads
TokenizerDefaults ==
    [REMOVE_COMMENTS |-> TRUE, REMOVE_INCLUDES |-> TRUE, NORMALIZE_WHITESPACE |-> TRUE]

\* no tokenizer call of its own is under way
TokenizerIdle ==
    /\ t_call = "idle"
    /\ t_code = <<>>
    /\ t_mode = "structural"
    /\ t_flags = TokenizerDefaults
    /\ t_student = <<>>
    /\ t_template = <<>>
    /\ t_tokens = <<>>

\* the settings of config.py: thresholds in thousandths of a percent
ConfigDefaults ==
    [ROOT_DIR |-> ROOT_DIR, OUTPUT_DIR |-> OUTPUT_DIR,
     SIMILARITY_THRESHOLD |-> 95000, TEMPLATE_CODE_PATH |-> NONE]

\* the class attributes of config.Config that the web API reads and writes,
\* as the module defines them
ApiConfigDefaults ==
    [ROOT_DIR |-> ROOT_DIR, OUTPUT_DIR |-> OUTPUT_DIR,
     TEMPLATE_CODE_PATH |-> NONE, SIMILARITY_THRESHOLD |-> 95000,
     TOKENIZATION_ENABLED |-> TRUE, NORMALIZE_WHITESPACE |-> TRUE,
     REMOVE_COMMENTS |-> TRUE, REMOVE_INCLUDES |-> TRUE, IGNORE_VARIABLES |-> FALSE]

\* process_submission_batch is not under way
ApiIdle ==
    /\ a_pc = "idle"
    /\ a_upload = <<>>
    /\ a_settings = <<>>
    /\ a_Config = ApiConfigDefaults
    /\ a_before = ApiConfigDefaults
    /\ a_snapshot = <<>>
    /\ a_raised = "none"

\* no MasterGrader beside the one of the pipeline
RunsIdle ==
    /\ g_Config = ConfigDefaults
    /\ g_runs = <<>>

\* no case list of its own is being reported on
ReportIdle ==
    /\ r_cases = <<>>
    /\ r_done = {"find_clusters", "get_statistics"}
    /\ r_clusters = <<>>
    /\ r_stats = get_statistics(<<>>)

\* no detector of its own is in use
DetectorIdle ==
    /\ d_on = FALSE
    /\ d_fs = <<>>
    /\ d_template = NONE
    /\ d_min = 0
    /\ d_cache = <<>>
    /\ d_calls = <<>>

\* a ZipExtractor after __init__, on a disk with the files fs
NewExtractor(fs) ==
    [fs |-> fs, log |-> <<>>, extracted_files |-> {}, opened |-> <<>>, written |-> <<>>]

\* no extractor call of its own is under way
ExtractorIdle ==
    /\ x_call = "idle"
    /\ x_stack = <<>>
    /\ x_zip_path = <<>>
    /\ x_extract_to = <<>>
    /\ x_depth = 0
    /\ x_ret = "none"
    /\ x_st = NewExtractor(NoFiles)

\* no mapper call of its own is under way
MapperIdle ==
    /\ m_N = 0
    /\ m_call = "idle"
    /\ m_path = <<>>
    /\ m_exists = FALSE
    /\ m_result = NONE
    /\ m_files = <<>>
    /\ m_mapping = <<>>
    /\ m_warnings = <<>>

\* MasterGrader.__init__: empty results, nothing on disk but the root
Constructed ==
    /\ pc = "start"
    /\ ret = "running"
    /\ listing = <<>>
    /\ results = <<>>
    /\ extraction_results = <<>>
    /\ temp_dirs = <<>>
    /\ scratch = <<>>
    /\ created = {}
    /\ org_todo = <<>>
    /\ org_results = <<>>
    /\ organization_results = <<>>
    /\ out_dirs = {}
    /\ out_files = <<>>
    /\ question_num = 0
    /\ similarity_cache = <<>>
    /\ all_plagiarism_cases = <<>>
    /\ plagiarism_cases = <<>>
    /\ calls = <<>>
    /\ log_entries = <<>>
    /\ reported = FALSE
    /\ faults = 0
    /\ earlier_runs = 0

(***************************************************************************)
(* The mapper on its own: every bounded path through map_file_to_question, *)
(* small directories through map_student_files                             *)
(***************************************************************************)

\* the directory listings of at most MaxFiles named files, in any order
Listings ==
    {fs \in UNION {[1..n -> SampleFiles] : n \in 0..MaxFiles} :
        \A i, j \in 1..Len(fs) : i # j => fs[i] # fs[j]}

\* a fresh FileMapper and the arguments of the call to come
MapperInit ==
    /\ Constructed
    /\ ExtractorIdle
    /\ DetectorIdle
    /\ ReportIdle
    /\ RunsIdle
    /\ TokenizerIdle
    /\ SubmissionsIdle
    /\ ApiIdle
    /\ cfg = DefaultConfig
    /\ root = NoFiles
    /\ m_N \in QuestionCounts
    /\ m_call \in {"file", "student"}
    /\ m_result = NONE
    /\ m_mapping = <<>>
    /\ m_warnings = <<>>
    /\ \E dir \in ScratchDirs :
        \/ /\ m_call = "file"
           /\ m_files = <<>>
           /\ m_exists \in BOOLEAN
           /\ \E rel \in RelPaths :
                /\ (m_N > 2 => rel \in SampleFiles)
                /\ m_path = dir \o <<"/">> \o rel
        \/ /\ m_call = "student"
           /\ m_path = dir
           /\ m_exists \in BOOLEAN
           /\ m_files \in Listings

\* the call of map_file_to_question
MapFile ==
    /\ m_call = "file"
    /\ m_call' = "file_done"
    /\ \E r \in {map_file_to_question(m_path, m_exists, m_N)} :
            /\ m_result' = r.result
            /\ m_warnings' = m_warnings \o r.warnings
    /\ UNCHANGED <<avars, earlier_runs, pvars, xvars, dvars, rvars, gvars, tvars, svars, m_N, m_path, m_exists, m_files, m_mapping>>

\* the call of map_student_files
MapStudent ==
    /\ m_call = "student"
    /\ m_call' = "student_done"
    /\ \E r \in {map_student_files(m_path, m_exists, m_files, m_N)} :
            /\ m_mapping' = r.mapping
            /\ m_warnings' = r.warnings
    /\ UNCHANGED <<avars, earlier_runs, pvars, xvars, dvars, rvars, gvars, tvars, svars, m_N, m_path, m_exists, m_files, m_result>>

MapperNext == MapFile \/ MapStudent

SpecMapper == MapperInit /\ [][MapperNext]_vars

(***************************************************************************)
(* The extractor on its own: one call of extract_zip on a fresh            *)
(* ZipExtractor, for small archives and for archives nested in archives    *)
(***************************************************************************)

\* at most so many members in an archive drawn member by member
MaxMembers == 2

\* the longest chain of archives nested in archives
MaxNesting == 12

NAME_n_zip == <<"n", ".", "z", "i", "p">>

RECURSIVE Nest(_)
\* an archive that holds a file, and k levels of archive around it, each
\* with a file after the nested archive
Nest(k) ==
    IF k = 0 THEN ZipOf(<<Member(FILE_q1, PlainFile)>>)
    ELSE ZipOf(<<Member(NAME_n_zip, Nest(k - 1)), Member(FILE_q2, PlainFile)>>)

\* the members archives are drawn from: plain names, names that leave the
\* target, an ignored name, nested archives, a file that only has the name
\* of an archive
MemberPool ==
    { Member(FILE_q1, PlainFile),
      Member(<<".", ".", "/">> \o FILE_q1, PlainFile),
      Member(<<"/">> \o FILE_q1, PlainFile),
      Member(<<"s", "u", "b", "/", ".", ".", "/">> \o FILE_q2, PlainFile),
      Member(<<"_", "_", "M", "A", "C", "O", "S", "X", "/">> \o FILE_q1, PlainFile),
      Member(NAME_n_zip, Nest(0)),
      Member(NAME_n_zip, ZipOf(<<Member(<<".", ".", "/">> \o FILE_q2, PlainFile)>>)),
      Member(<<".", ".", "/">> \o NAME_n_zip, Nest(0)),
      Member(<<"N", ".", "Z", "I", "P">>, PlainFile) }

\* an archive whose only member is a copy of the archive
Quine == [kind |-> "quine", members |-> <<>>]

Archives ==
    {ZipOf(ms) : ms \in UNION {[1..n -> MemberPool] : n \in 0..MaxMembers}}
        \cup {Nest(k) : k \in 1..MaxNesting}
        \cup {Quine}

\* the names the archive file may have: a .zip, a .rar, no archive name
ArchivePaths ==
    { <<"/", "i", "n", "/", "a", ".", "z", "i", "p">>,
      <<"/", "i", "n", "/", "a", ".", "r", "a", "r">>,
      <<"/", "i", "n", "/", "a", ".", "t", "x", "t">> }

EXTRACT_TO == <<"/", "t", "m", "p", "/", "t">>

\* the depths extract_zip is called with
StartDepths == {0, 1, MAX_EXTRACTION_DEPTH, MAX_EXTRACTION_DEPTH + 1}

\* a fresh ZipExtractor, the archive on disk or missing, and the arguments
\* of the call to come
ExtractInit ==
    /\ Constructed
    /\ MapperIdle
    /\ DetectorIdle
    /\ ReportIdle
    /\ RunsIdle
    /\ TokenizerIdle
    /\ SubmissionsIdle
    /\ ApiIdle
    /\ cfg = DefaultConfig
    /\ root = NoFiles
    /\ x_call = "zip"
    /\ x_stack = <<>>
    /\ x_zip_path \in ArchivePaths
    /\ x_extract_to = EXTRACT_TO
    /\ x_depth \in StartDepths
    /\ x_ret = "none"
    /\ \E archive \in Archives, exists \in BOOLEAN :
            x_st = NewExtractor(IF exists THEN x_zip_path :> archive ELSE NoFiles)

\* extract_zip is called
CallExtractZip ==
    /\ x_call = "zip"
    /\ x_call' = "running"
    /\ x_stack' = <<Frame(x_zip_path, x_extract_to, <<>>, x_depth)>>
    /\ UNCHANGED <<avars, earlier_runs, mvars, pvars, dvars, rvars, gvars, tvars, svars, x_zip_path, x_extract_to, x_depth, x_ret, x_st>>

\* the innermost call runs up to its loop over the members, or returns
EnterExtractZip ==
    /\ x_call = "running"
    /\ x_stack[Len(x_stack)].at = "enter"
    /\ \E r \in {enter_extract_zip(x_stack[Len(x_stack)], x_st)} :
            /\ x_st' = r.st
            /\ IF r.ok = "open"
               THEN /\ x_stack' = [x_stack EXCEPT
                            ![Len(x_stack)].at = "loop",
                            ![Len(x_stack)].members = namelist(x_st.fs[resolve(x_stack[Len(x_stack)].zip_path)]),
                            ![Len(x_stack)].k = 1]
                    /\ UNCHANGED <<x_call, x_ret>>
               ELSE /\ x_stack' = returned(x_stack, r.ok = "True")
                    /\ x_call' = IF Len(x_stack) = 1 THEN "done" ELSE x_call
                    /\ x_ret' = IF Len(x_stack) = 1 THEN r.ok ELSE x_ret
    /\ UNCHANGED <<avars, earlier_runs, mvars, pvars, dvars, rvars, gvars, tvars, svars, x_zip_path, x_extract_to, x_depth>>

\* one pass of the loop over namelist(): the member is skipped, extracted,
\* or extracted and, being an archive, handed to a nested call
NextMember ==
    /\ x_call = "running"
    /\ x_stack[Len(x_stack)].at = "loop"
    /\ x_stack[Len(x_stack)].k <= Len(x_stack[Len(x_stack)].members)
    /\ \E f \in {x_stack[Len(x_stack)]} :
        IF should_ignore(f.members[f.k].name)
        THEN /\ x_stack' = [x_stack EXCEPT ![Len(x_stack)].k = @ + 1]
             /\ x_st' = x_st
        ELSE \E r \in {extract_member(f, getinfo(f.members, f.members[f.k].name), x_st)} :
                /\ x_st' = r.st
                /\ x_stack' =
                        IF r.nested
                        THEN Append([x_stack EXCEPT
                                        ![Len(x_stack)].at = "nested",
                                        ![Len(x_stack)].extracted_path =
                                            os_path_join(f.extract_to, f.members[f.k].name)],
                                    Frame(os_path_join(f.extract_to, f.members[f.k].name),
                                          nested_temp_dir(f.extract_to), f.student_id, f.depth + 1))
                        ELSE [x_stack EXCEPT ![Len(x_stack)].k = @ + 1]
    /\ UNCHANGED <<avars, earlier_runs, mvars, pvars, dvars, rvars, gvars, tvars, svars, x_call, x_zip_path, x_extract_to, x_depth, x_ret>>

\* the nested call has returned: its files are moved up when it returned
\* True, its directory and the nested archive are removed
NestedReturned ==
    /\ x_call = "running"
    /\ x_stack[Len(x_stack)].at = "returned"
    /\ x_st' = [x_st EXCEPT !.fs = after_nested(x_stack[Len(x_stack)], @)]
    /\ x_stack' = [x_stack EXCEPT ![Len(x_stack)].at = "loop",
                                  ![Len(x_stack)].k = @ + 1]
    /\ UNCHANGED <<avars, earlier_runs, mvars, pvars, dvars, rvars, gvars, tvars, svars, x_call, x_zip_path, x_extract_to, x_depth, x_ret>>

\* the loop is over: the archive is remembered and the call returns True
FinishExtractZip ==
    /\ x_call = "running"
    /\ x_stack[Len(x_stack)].at = "loop"
    /\ x_stack[Len(x_stack)].k > Len(x_stack[Len(x_stack)].members)
    /\ x_st' = [x_st EXCEPT !.extracted_files =
                    @ \cup {resolve(x_stack[Len(x_stack)].zip_path)}]
    /\ x_stack' = returned(x_stack, TRUE)
    /\ x_call' = IF Len(x_stack) = 1 THEN "done" ELSE x_call
    /\ x_ret' = IF Len(x_stack) = 1 THEN "True" ELSE x_ret
    /\ UNCHANGED <<avars, earlier_runs, mvars, pvars, dvars, rvars, gvars, tvars, svars, x_zip_path, x_extract_to, x_depth>>

ExtractNext ==
    \/ CallExtractZip
    \/ EnterExtractZip
    \/ NextMember
    \/ NestedReturned
    \/ FinishExtractZip

SpecExtract == ExtractInit /\ [][ExtractNext]_vars

(***************************************************************************)
(* The detector on its own: calls of compare_two_files on one              *)
(* PlagiarismDetector, in any order, for small files                       *)
(***************************************************************************)

\* at most so many calls of compare_two_files on the detector
MaxCalls == 2

\* the token streams of the files: an empty file, streams below and above
\* the minimum token counts, a copy of the template
StreamPool ==
    { <<>>, <<TOK_a>>, <<TOK_a, TOK_a>>, Stream_ab, Stream_abc,
      <<TOK_b, TOK_a, TOK_b, TOK_a>> }

\* the paths compare_two_files is called with
ComparePaths == {FILE_q1, FILE_q2}

\* a fresh PlagiarismDetector; each path names a file or nothing
DetectorInit ==
    /\ Constructed
    /\ MapperIdle
    /\ ExtractorIdle
    /\ ReportIdle
    /\ RunsIdle
    /\ TokenizerIdle
    /\ SubmissionsIdle
    /\ ApiIdle
    /\ cfg = DefaultConfig
    /\ root = NoFiles
    /\ d_on = TRUE
    /\ d_fs \in UNION {[paths -> StreamPool] : paths \in SUBSET ComparePaths}
    /\ d_template \in {NONE, TemplateTokens}
    /\ d_min \in {1, 2, 3}
    /\ d_cache = <<>>
    /\ d_calls = <<>>

\* a call of compare_two_files
CompareTwoFiles ==
    /\ d_on
    /\ Len(d_calls) < MaxCalls
    /\ \E file1_path, file2_path \in ComparePaths :
        \E r \in {compare_two_files(d_fs, file1_path, file2_path, d_template, d_min, d_cache)} :
            /\ d_cache' = r.cache
            /\ d_calls' = Append(d_calls, [file1_path |-> file1_path,
                                           file2_path |-> file2_path,
                                           similarity |-> r.similarity])
    /\ UNCHANGED <<avars, earlier_runs, mvars, pvars, xvars, rvars, gvars, tvars, svars, d_on, d_fs, d_template, d_min>>

SpecDetector == DetectorInit /\ [][CompareTwoFiles]_vars

(***************************************************************************)
(* Clusters and statistics on their own: find_clusters and get_statistics  *)
(* on small case lists                                                     *)
(***************************************************************************)

\* at most so many cases in the list
MaxCases == 3

STUDENT_dan == <<"d", "a", "n">>

\* the pairs of students of the cases, in the order the detector met them
CasePairs ==
    { <<StudentPool[1], StudentPool[2]>>, <<StudentPool[2], StudentPool[1]>>,
      <<StudentPool[2], StudentPool[3]>>, <<StudentPool[3], STUDENT_dan>> }

\* question and similarity (in hundredths of a percent) of the cases: the
\* threshold may lie anywhere from 0 to 100
CaseScores == { <<1, 8000>>, <<2, 8999>>, <<2, 9900>> }

CasePool ==
    {[question   |-> score[1],
      student1   |-> pair[1],
      student2   |-> pair[2],
      similarity |-> score[2],
      file1      |-> dest_file(OUTPUT_DIR, score[1], pair[1]),
      file2      |-> dest_file(OUTPUT_DIR, score[1], pair[2])] :
        pair \in CasePairs, score \in CaseScores}

\* a case list
ReportInit ==
    /\ Constructed
    /\ MapperIdle
    /\ ExtractorIdle
    /\ DetectorIdle
    /\ RunsIdle
    /\ TokenizerIdle
    /\ SubmissionsIdle
    /\ ApiIdle
    /\ cfg = DefaultConfig
    /\ root = NoFiles
    /\ r_cases \in UNION {[1..n -> CasePool] : n \in 0..MaxCases}
    /\ r_done = {}
    /\ r_clusters = <<>>
    /\ r_stats = get_statistics(<<>>)

\* the call of find_clusters
FindClusters ==
    /\ "find_clusters" \notin r_done
    /\ r_done' = r_done \cup {"find_clusters"}
    /\ r_clusters' = find_clusters(r_cases)
    /\ UNCHANGED <<avars, earlier_runs, mvars, pvars, xvars, dvars, gvars, tvars, svars, r_cases, r_stats>>

\* the call of get_statistics
GetStatistics ==
    /\ "get_statistics" \notin r_done
    /\ r_done' = r_done \cup {"get_statistics"}
    /\ r_stats' = get_statistics(r_cases)
    /\ UNCHANGED <<avars, earlier_runs, mvars, pvars, xvars, dvars, gvars, tvars, svars, r_cases, r_clusters>>

ReportNext == FindClusters \/ GetStatistics

SpecReport == ReportInit /\ [][ReportNext]_vars

(***************************************************************************)
(* The tokenizer on its own: one call of subtract_template_tokens or of    *)
(* tokenize_to_list on a fresh CTokenizer                                  *)
(***************************************************************************)

\* the longest token of a generated token list
MaxTokenLen == 2

\* the most tokens of a generated student list and of a generated template
MaxStudentTokens == 3

MaxTemplateTokens == 2

TokenChars == {"a", "b"}

GeneratedTokens == UNION {[1..n -> TokenChars] : n \in 1..MaxTokenLen}

StudentTokenLists == UNION {[1..n -> GeneratedTokens] : n \in 0..MaxStudentTokens}

TemplateTokenLists == UNION {[1..n -> GeneratedTokens] : n \in 0..MaxTemplateTokens}

\* the longest generated code
MaxCodeLen == 5

CodeChars == {"a", "\"", "/", "*", "\n"}

GeneratedCodes == UNION {[1..n -> CodeChars] : n \in 0..MaxCodeLen}

\* named codes, beside the generated ones:
\*   s = "a//b"; y
\*   p("/*"); q(); /* c */ r
\*   #include <a.h>  (newline)  int x = 0x1F; // c
\*     # (newline) if x  (newline)  y = '\'' + 1.5e+3;
\*   x = 09 + 1.a + 0.5 // "
\*   "a\"//b" While (newline) "
SampleCodes ==
    { <<"s", " ", "=", " ", "\"", "a", "/", "/", "b", "\"", ";", " ", "y">>,
      <<"p", "(", "\"", "/", "*", "\"", ")", ";", " ", "q", "(", ")", ";", " ",
        "/", "*", " ", "c", " ", "*", "/", " ", "r">>,
      <<"#", "i", "n", "c", "l", "u", "d", "e", " ", "<", "a", ".", "h", ">", "\n",
        "i", "n", "t", " ", "x", " ", "=", " ", "0", "x", "1", "F", ";", " ",
        "/", "/", " ", "c">>,
      <<" ", " ", "#", "\n", "i", "f", " ", "x", "\n",
        "y", " ", "=", " ", "'", "\\", "'", "'", " ", "+", " ",
        "1", ".", "5", "e", "+", "3", ";">>,
      <<"x", " ", "=", " ", "0", "9", " ", "+", " ", "1", ".", "a", " ", "+", " ",
        "0", ".", "5", " ", "/", "/", " ", "\"">>,
      <<"\"", "a", "\\", "\"", "/", "/", "b", "\"", " ", "W", "h", "i", "l", "e",
        "\n", "\"">> }

\* the settings of Config the tokenizer may run under
TokenizerFlags ==
    [REMOVE_COMMENTS : BOOLEAN, REMOVE_INCLUDES : BOOLEAN, NORMALIZE_WHITESPACE : BOOLEAN]

\* a fresh CTokenizer and the arguments of the call to come
TokenizerInit ==
    /\ Constructed
    /\ MapperIdle
    /\ ExtractorIdle
    /\ DetectorIdle
    /\ ReportIdle
    /\ RunsIdle
    /\ SubmissionsIdle
    /\ ApiIdle
    /\ cfg = DefaultConfig
    /\ root = NoFiles
    /\ t_tokens = <<>>
    /\ t_call \in {"subtract", "tokenize"}
    /\ \/ /\ t_call = "subtract"
          /\ t_student \in StudentTokenLists
          /\ t_template \in TemplateTokenLists
          /\ t_code = <<>>
          /\ t_mode = "structural"
          /\ t_flags = TokenizerDefaults
       \/ /\ t_call = "tokenize"
          /\ t_student = <<>>
          /\ t_template = <<>>
          /\ \/ /\ t_code \in GeneratedCodes
                /\ t_mode = "structural"
                /\ t_flags \in {f \in TokenizerFlags :
                                    f.REMOVE_INCLUDES /\ f.NORMALIZE_WHITESPACE}
             \/ /\ t_code \in SampleCodes
                /\ t_mode \in {"structural", "literal"}
                /\ t_flags \in TokenizerFlags

\* the call of subtract_template_tokens
SubtractTemplateTokens ==
    /\ t_call = "subtract"
    /\ t_call' = "subtract_done"
    /\ t_tokens' = subtract_template_tokens(t_student, t_template)
    /\ UNCHANGED <<avars, earlier_runs, mvars, pvars, xvars, dvars, rvars, gvars, svars, t_code, t_mode, t_flags, t_student, t_template>>

\* the call of tokenize_to_list
TokenizeToList ==
    /\ t_call = "tokenize"
    /\ t_call' = "tokenize_done"
    /\ t_tokens' = tokenize_to_list(t_code, t_mode, t_flags)
    /\ UNCHANGED <<avars, earlier_runs, mvars, pvars, xvars, dvars, rvars, gvars, svars, t_code, t_mode, t_flags, t_student, t_template>>

TokenizerNext == SubtractTemplateTokens \/ TokenizeToList

SpecTokenizer == TokenizerInit /\ [][TokenizerNext]_vars

(***************************************************************************)
(* extract_student_submissions on its own: one ZipExtractor for all the    *)
(* student directories of a root, archive by archive                       *)
(***************************************************************************)

SUBMISSIONS_ROOT == <<"/", "i", "n">>

NAME_a_zip == <<"a", ".", "z", "i", "p">>

NAME_b_zip == <<"b", ".", "z", "i", "p">>

\* what a student directory may hold, by relative path: a readable archive,
\* a file that only has the name of an archive, two archives of one name in
\* two directories, two archives in one directory, loose sources, an
\* archive in an archive, an empty archive, a .rar, an archive in an
\* ignored directory
StudentDirPool ==
    { NAME_a_zip :> Nest(0),
      NAME_a_zip :> PlainFile,
      (<<"x", "/">> \o NAME_a_zip :> Nest(0))
        @@ (<<"y", "/">> \o NAME_a_zip :> ZipOf(<<Member(FILE_q2, PlainFile)>>)),
      (NAME_a_zip :> Nest(0))
        @@ (NAME_b_zip :> ZipOf(<<Member(<<"s", "u", "b", "/">> \o FILE_q2, PlainFile)>>)),
      (FILE_q1 :> PlainFile) @@ (<<"s", "u", "b", "/">> \o FILE_q2 :> PlainFile),
      NAME_a_zip :> Nest(1),
      NAME_a_zip :> ZipOf(<<>>),
      <<"a", ".", "r", "a", "r">> :> PlainFile,
      (<<".", "g", "i", "t", "/">> \o NAME_a_zip :> Nest(0)) @@ (FILE_q1 :> PlainFile) }

\* the files of a root whose student directories hold contents[student]
root_files(contents) ==
    [p \in {path_join(path_join(SUBMISSIONS_ROOT, s), rel) :
                s \in DOMAIN contents, rel \in UNION {DOMAIN contents[t] : t \in DOMAIN contents}}
           \cap UNION {{path_join(path_join(SUBMISSIONS_ROOT, s), rel) : rel \in DOMAIN contents[s]} :
                        s \in DOMAIN contents} |->
        LET s == CHOOSE t \in DOMAIN contents : under(path_join(SUBMISSIONS_ROOT, t), p)
        IN  contents[s][Slice(p, Len(path_join(SUBMISSIONS_ROOT, s)) + 2, Len(p))]]

\* the roots: up to MaxStudents student directories, with or without a
\* file next to them
SubmissionRoots ==
    UNION {{root_files(contents) @@ stray :
                contents \in [{StudentPool[i] : i \in 1..n} -> StudentDirPool],
                stray \in {NoFiles, path_join(SUBMISSIONS_ROOT, <<"n", "o", "t", "e", "s">>) :> PlainFile}} :
           n \in 0..MaxStudents}

\* the names of os.listdir(dir): the files in dir and its subdirectories
children(fs, dir) ==
    {Split(Slice(p, Len(dir) + 2, Len(p)), "/")[1] : p \in {q \in DOMAIN fs : under(dir, q)}}

\* os.path.isdir(path)
isdir(fs, path) == \E p \in DOMAIN fs : under(path, p)

\* the files os.walk(top) reaches when the directories whose path
\* _should_ignore matches are pruned, as [dir, name]
walk_files(fs, top) ==
    {[dir |-> dirname(p), name |-> basename(p)] :
        p \in {q \in DOMAIN fs :
                /\ under(top, q)
                /\ \A d \in parent_dirs(top, Slice(q, Len(top) + 2, Len(q))) :
                        ~should_ignore(d)}}

\* the orders in which os.walk(top), top down, may yield these files: those
\* of a directory together, before those of the directories below it, those
\* of a subtree together
walk_orders(entries) ==
    {order \in Perms(entries) :
        /\ \A i, j \in 1..Len(order) :
                under(order[i].dir, order[j].dir \o <<"/">>) => i < j
        /\ \A i, j, k \in 1..Len(order) :
                /\ i < j /\ j < k
                /\ (order[k].dir = order[i].dir \/ under(order[i].dir, order[k].dir \o <<"/">>))
                => (order[j].dir = order[i].dir \/ under(order[i].dir, order[j].dir \o <<"/">>))}

\* the directories the walk of top may yield last: top when it has no
\* subdirectory, else a directory below it that has none
last_walked(fs, top) ==
    LET dirs == {dirname(p) : p \in {q \in DOMAIN fs : under(top, q)}} \cup {top}
    IN  {d \in dirs : \A e \in dirs : ~under(d, e \o <<"/">>)}

\* a ZipExtractor on the root, extract_student_submissions about to run
SubmissionsInit ==
    /\ Constructed
    /\ MapperIdle
    /\ DetectorIdle
    /\ ReportIdle
    /\ RunsIdle
    /\ TokenizerIdle
    /\ ApiIdle
    /\ cfg = DefaultConfig
    /\ root = NoFiles
    /\ x_call = "idle"
    /\ x_stack = <<>>
    /\ x_zip_path = <<>>
    /\ x_extract_to = <<>>
    /\ x_depth = 0
    /\ x_ret = "none"
    /\ x_st \in {NewExtractor(fs) : fs \in SubmissionRoots}
    /\ s_pc = "start"
    /\ s_listing = <<>>
    /\ s_student_id = <<>>
    /\ s_temp_dir = <<>>
    /\ s_files = <<>>
    /\ s_dir = <<>>
    /\ s_walk_root = <<>>
    /\ s_zip_files_found = FALSE
    /\ s_file_path = <<>>
    /\ s_results = <<>>

\* extract_student_submissions up to its loop: without root directory it
\* returns the empty results, else it lists the root
StartSubmissions ==
    /\ s_pc = "start"
    /\ IF ~isdir(x_st.fs, SUBMISSIONS_ROOT)
       THEN /\ s_pc' = "returned"
            /\ s_listing' = s_listing
       ELSE /\ s_pc' = "students"
            /\ s_listing' \in Perms(children(x_st.fs, SUBMISSIONS_ROOT))
    /\ UNCHANGED <<avars, earlier_runs, mvars, pvars, xvars, dvars, rvars, gvars, tvars, s_student_id, s_temp_dir,
                   s_files, s_dir, s_walk_root, s_zip_files_found, s_file_path, s_results>>

\* the next item of the root: a file is passed over; for a directory
\* extract_student_zips_to_temp makes the scratch directory and starts its
\* walk of the student directory
NextStudent ==
    /\ s_pc = "students"
    /\ s_listing # <<>>
    /\ s_listing' = Tail(s_listing)
    /\ IF ~isdir(x_st.fs, path_join(SUBMISSIONS_ROOT, Head(s_listing)))
       THEN UNCHANGED <<s_pc, s_student_id, s_temp_dir, s_files, s_dir, s_walk_root,
                        s_zip_files_found>>
       ELSE /\ s_pc' = "walk"
            /\ s_student_id' = Head(s_listing)
            /\ \E rnd \in RandomSuffixes : s_temp_dir' = mkdtemp(Head(s_listing), rnd)
            /\ s_files' \in walk_orders(walk_files(x_st.fs,
                                path_join(SUBMISSIONS_ROOT, Head(s_listing))))
            /\ s_dir' = <<>>
            /\ s_walk_root' = <<>>
            /\ s_zip_files_found' = FALSE
    /\ UNCHANGED <<avars, earlier_runs, mvars, pvars, xvars, dvars, rvars, gvars, tvars, s_file_path, s_results>>

\* the value of the local variable root for the next file: the directory
\* os.walk(student_dir) yielded when the walk moved on, else what the last
\* assignment left
root_of(entry, walk_dir, walk_root) ==
    IF entry.dir # walk_dir THEN entry.dir ELSE walk_root

\* the next file of the walk: a file that has no archive extension is
\* passed over; an archive is copied to the scratch directory and
\* extract_zip is called on the copy; when shutil.copy2 raises (no such
\* file, or source and target are one file) the error is logged
NextFile ==
    /\ s_pc = "walk"
    /\ s_files # <<>>
    /\ \E file \in {Head(s_files).name},
          file_path \in {path_join(root_of(Head(s_files), s_dir, s_walk_root), Head(s_files).name)} :
        /\ s_dir' = Head(s_files).dir
        /\ s_walk_root' = root_of(Head(s_files), s_dir, s_walk_root)
        /\ IF Lower(splitext_ext(file)) \notin Range(ZIP_EXTENSIONS)
           THEN /\ s_files' = Tail(s_files)
                /\ UNCHANGED <<xvars, s_pc, s_zip_files_found, s_file_path>>
           ELSE /\ s_zip_files_found' = TRUE
                /\ s_file_path' = file_path
                /\ IF file_path \notin DOMAIN x_st.fs \/ file_path = path_join(s_temp_dir, file)
                   THEN /\ x_st' = [log_error(x_st, "copy", s_student_id, file_path) EXCEPT
                                        !.fs = IF path_join(s_temp_dir, file) \in DOMAIN @
                                               THEN remove(@, path_join(s_temp_dir, file))
                                               ELSE @]
                        /\ s_files' = Tail(s_files)
                        /\ UNCHANGED <<x_call, x_stack, x_zip_path, x_extract_to, x_depth,
                                       x_ret, s_pc>>
                   ELSE /\ x_st' = [x_st EXCEPT !.fs = write_file(@, path_join(s_temp_dir, file),
                                                                    x_st.fs[file_path])]
                        /\ x_stack' = <<Frame(path_join(s_temp_dir, file), s_temp_dir,
                                              s_student_id, 0)>>
                        /\ x_call' = "running"
                        /\ s_pc' = "extracting"
                        /\ UNCHANGED <<x_zip_path, x_extract_to, x_depth, x_ret, s_files>>
    /\ UNCHANGED <<avars, earlier_runs, mvars, pvars, dvars, rvars, gvars, tvars, s_listing, s_student_id,
                   s_temp_dir, s_results>>

\* extract_zip has returned: the files of the scratch directory are
\* counted, which assigns root anew, the copy is removed, and a failure or
\* a scratch directory with at most one file is logged
AfterExtract ==
    /\ s_pc = "extracting"
    /\ x_call = "done"
    /\ \E temp_zip_path \in {path_join(s_temp_dir, Head(s_files).name)},
          files_after_extract \in {{p \in DOMAIN x_st.fs : under(s_temp_dir, p)}} :
        /\ s_walk_root' \in last_walked(x_st.fs, s_temp_dir)
        /\ \E removed \in {[x_st EXCEPT !.fs = IF temp_zip_path \in DOMAIN @
                                               THEN remove(@, temp_zip_path) ELSE @]} :
            x_st' = IF x_ret # "True"
                    THEN log_error(removed, "extract failed", s_student_id, s_file_path)
                    ELSE IF Cardinality(files_after_extract) <= 1
                    THEN log_error(removed, "empty", s_student_id, s_file_path)
                    ELSE removed
    /\ x_call' = "idle"
    /\ x_ret' = "none"
    /\ s_pc' = "walk"
    /\ s_files' = Tail(s_files)
    /\ UNCHANGED <<avars, earlier_runs, mvars, pvars, dvars, rvars, gvars, tvars, x_stack, x_zip_path, x_extract_to,
                   x_depth, s_listing, s_student_id, s_temp_dir, s_dir, s_zip_files_found,
                   s_file_path, s_results>>

\* the files the second walk copies when no archive was found: those with
\* an accepted extension, to the same relative path in the scratch
\* directory
copy_c_files(fs, student_dir, temp_dir) ==
    LET found == {e \in walk_files(fs, student_dir) :
                    Lower(splitext_ext(e.name)) \in Range(ACCEPTED_EXTENSIONS)}
        dest(e) == path_join(temp_dir,
                        Slice(path_join(e.dir, e.name), Len(student_dir) + 2,
                              Len(path_join(e.dir, e.name))))
    IN  [p \in (DOMAIN fs) \cup {dest(e) : e \in found} |->
            IF \E e \in found : dest(e) = p
            THEN fs[path_join((CHOOSE e \in found : dest(e) = p).dir,
                              (CHOOSE e \in found : dest(e) = p).name)]
            ELSE fs[p]]

\* the walk is over: without archive the sources are copied;
\* extract_student_zips_to_temp returns the scratch directory and the
\* result of the student is stored with a copy of failed_extractions
FinishStudent ==
    /\ s_pc = "walk"
    /\ s_files = <<>>
    /\ x_st' = IF s_zip_files_found THEN x_st
               ELSE [x_st EXCEPT !.fs = copy_c_files(@,
                        path_join(SUBMISSIONS_ROOT, s_student_id), s_temp_dir)]
    /\ s_results' = Append(s_results,
                        [student_id |-> s_student_id,
                         temp_path |-> s_temp_dir,
                         original_path |-> path_join(SUBMISSIONS_ROOT, s_student_id),
                         failed |-> x_st.log])
    /\ s_pc' = "students"
    /\ UNCHANGED <<avars, earlier_runs, mvars, pvars, dvars, rvars, gvars, tvars, x_call, x_stack, x_zip_path,
                   x_extract_to, x_depth, x_ret, s_listing, s_student_id, s_temp_dir,
                   s_files, s_dir, s_walk_root, s_zip_files_found, s_file_path>>

\* the loop over the root is over: results is returned
FinishSubmissions ==
    /\ s_pc = "students"
    /\ s_listing = <<>>
    /\ s_pc' = "returned"
    /\ UNCHANGED <<avars, earlier_runs, mvars, pvars, xvars, dvars, rvars, gvars, tvars, s_listing, s_student_id,
                   s_temp_dir, s_files, s_dir, s_walk_root, s_zip_files_found, s_file_path,
                   s_results>>

SubmissionsNext ==
    \/ StartSubmissions
    \/ NextStudent
    \/ NextFile
    \/ EnterExtractZip
    \/ NextMember
    \/ NestedReturned
    \/ FinishExtractZip
    \/ AfterExtract
    \/ FinishStudent
    \/ FinishSubmissions

SpecSubmissions == SubmissionsInit /\ [][SubmissionsNext]_vars

(***************************************************************************)
(* The web API (api.py): one call of process_submission_batch              *)
(***************************************************************************)

\* an optional argument: None, or a value
None == [given |-> FALSE, value |-> FALSE]

Some(v) == [given |-> TRUE, value |-> v]

\* the settings of a request: a threshold or none, the four switches each
\* on, off or not given
RequestSettings ==
    [threshold : {[given |-> FALSE, value |-> 0], Some(50000), Some(95000)},
     ignore_comments : {None, Some(TRUE), Some(FALSE)},
     ignore_variable_names : {None, Some(TRUE), Some(FALSE)},
     normalize_whitespace : {None, Some(TRUE), Some(FALSE)},
     tokenization_enabled : {None, Some(TRUE), Some(FALSE)}]

\* the uploads: the file name ends in .zip or not; the stream holds an
\* archive with student directories, an empty archive, or no archive
Uploads ==
    [zip_name : BOOLEAN, content : {"students", "empty", "not a zip"}]

\* config.Config when the request arrives: as the module defines it, or as
\* an earlier command-line run left it
ApiConfigs ==
    { ApiConfigDefaults,
      [ApiConfigDefaults EXCEPT !.ROOT_DIR = <<"r", "o", "o", "t", "A">>,
                                !.OUTPUT_DIR = <<"o", "u", "t", "A">>,
                                !.SIMILARITY_THRESHOLD = 90000,
                                !.TEMPLATE_CODE_PATH = <<"t", "p", "l", "A", ".", "c">>,
                                !.REMOVE_COMMENTS = FALSE,
                                !.IGNORE_VARIABLES = TRUE] }

\* the directories process_submission_batch makes in its work_dir
WORK_ROOT_DIR == <<"w", "o", "r", "k", "/", "r", "o", "o", "t">>

WORK_OUTPUT_DIR == <<"w", "o", "r", "k", "/", "o", "r", "g", "a", "n", "i", "z", "e", "d">>

\* _snapshot_config
snapshot_config(Config) ==
    [ROOT_DIR |-> Config.ROOT_DIR,
     OUTPUT_DIR |-> Config.OUTPUT_DIR,
     SIMILARITY_THRESHOLD |-> Config.SIMILARITY_THRESHOLD,
     TOKENIZATION_ENABLED |-> Config.TOKENIZATION_ENABLED,
     NORMALIZE_WHITESPACE |-> Config.NORMALIZE_WHITESPACE,
     REMOVE_COMMENTS |-> Config.REMOVE_COMMENTS,
     REMOVE_INCLUDES |-> Config.REMOVE_INCLUDES,
     IGNORE_VARIABLES |-> Config.IGNORE_VARIABLES]

\* a restore that only puts the two directories back
restore_directories(Config, snapshot) ==
    [Config EXCEPT !.ROOT_DIR = snapshot.ROOT_DIR,
                   !.OUTPUT_DIR = snapshot.OUTPUT_DIR]

\* _restore_config
restore_config(Config, snapshot) ==
    [Config EXCEPT !.ROOT_DIR = snapshot.ROOT_DIR,
                   !.OUTPUT_DIR = snapshot.OUTPUT_DIR,
                   !.SIMILARITY_THRESHOLD = snapshot.SIMILARITY_THRESHOLD,
                   !.TOKENIZATION_ENABLED = snapshot.TOKENIZATION_ENABLED,
                   !.NORMALIZE_WHITESPACE = snapshot.NORMALIZE_WHITESPACE,
                   !.REMOVE_COMMENTS = snapshot.REMOVE_COMMENTS,
                   !.REMOVE_INCLUDES = snapshot.REMOVE_INCLUDES,
                   !.IGNORE_VARIABLES = snapshot.IGNORE_VARIABLES]

\* _apply_settings_from_request
apply_settings_from_request(Config, settings) ==
    [Config EXCEPT
        !.SIMILARITY_THRESHOLD =
            IF settings.threshold.given THEN settings.threshold.value ELSE @,
        !.REMOVE_COMMENTS =
            IF settings.ignore_comments.given THEN settings.ignore_comments.value ELSE @,
        !.IGNORE_VARIABLES =
            IF settings.ignore_variable_names.given
            THEN settings.ignore_variable_names.value ELSE @,
        !.NORMALIZE_WHITESPACE =
            IF settings.normalize_whitespace.given
            THEN settings.normalize_whitespace.value ELSE @,
        !.TOKENIZATION_ENABLED =
            IF settings.tokenization_enabled.given
            THEN settings.tokenization_enabled.value ELSE @]

\* the parameters of MasterGrader.__init__
INIT_PARAMETERS == {"root_dir", "output_dir", "threshold", "template_path"}

\* the keyword arguments process_submission_batch constructs MasterGrader
\* with
INIT_KEYWORDS ==
    {"root_dir", "output_dir", "threshold", "template_path", "ignore_comments",
     "ignore_variable_names", "normalize_whitespace", "tokenization_enabled"}

\* the assignments of MasterGrader.__init__ to config.Config
init_assignments(Config, root_dir, output_dir, threshold, template_path) ==
    [Config EXCEPT
        !.ROOT_DIR = IF root_dir # NONE THEN root_dir ELSE @,
        !.OUTPUT_DIR = IF output_dir # NONE THEN output_dir ELSE @,
        !.SIMILARITY_THRESHOLD = threshold,
        !.TEMPLATE_CODE_PATH = IF template_path # NONE THEN template_path ELSE @]

\* a request arrives
ApiInit ==
    /\ Constructed
    /\ MapperIdle
    /\ ExtractorIdle
    /\ DetectorIdle
    /\ ReportIdle
    /\ RunsIdle
    /\ TokenizerIdle
    /\ SubmissionsIdle
    /\ cfg = DefaultConfig
    /\ root = NoFiles
    /\ a_pc = "start"
    /\ a_upload \in Uploads
    /\ a_settings \in RequestSettings
    /\ a_Config \in ApiConfigs
    /\ a_before = a_Config
    /\ a_snapshot = <<>>
    /\ a_raised = "none"

\* process_submission_batch up to the snapshot: a file name that does not
\* end in .zip, a stream that is no archive and an empty archive raise
\* SubmissionValidationError; else the upload is extracted and the snapshot
\* taken
ReceiveUpload ==
    /\ a_pc = "start"
    /\ IF ~a_upload.zip_name \/ a_upload.content # "students"
       THEN /\ a_pc' = "raised"
            /\ a_raised' = "SubmissionValidationError"
            /\ a_snapshot' = a_snapshot
       ELSE /\ a_pc' = "try"
            /\ a_snapshot' = snapshot_config(a_Config)
            /\ a_raised' = a_raised
    /\ UNCHANGED <<mvars, pvars, xvars, dvars, rvars, gvars, tvars, svars, earlier_runs,
                   a_upload, a_settings, a_Config, a_before>>

\* the try block: the settings of the request are applied and MasterGrader
\* is called with its keyword arguments; a keyword that __init__ does not
\* take raises TypeError before __init__ runs; else __init__ assigns, run
\* is called, and the block ends with the response, or with
\* GradingEngineError when run raised or returned False
GradeBatch ==
    /\ a_pc = "try"
    /\ a_pc' = "finally"
    /\ IF ~(INIT_KEYWORDS \subseteq INIT_PARAMETERS)
       THEN /\ a_Config' = apply_settings_from_request(a_Config, a_settings)
            /\ a_raised' = "TypeError"
       ELSE /\ a_Config' = init_assignments(
                                apply_settings_from_request(a_Config, a_settings),
                                WORK_ROOT_DIR, WORK_OUTPUT_DIR,
                                apply_settings_from_request(a_Config, a_settings).SIMILARITY_THRESHOLD,
                                apply_settings_from_request(a_Config, a_settings).TEMPLATE_CODE_PATH)
            /\ a_raised' \in {"none", "GradingEngineError"}
    /\ UNCHANGED <<mvars, pvars, xvars, dvars, rvars, gvars, tvars, svars, earlier_runs,
                   a_upload, a_settings, a_before, a_snapshot>>

\* the finally block: _restore_config(snapshot); the call returns or the
\* exception goes on
RestoreConfig ==
    /\ a_pc = "finally"
    /\ a_Config' = restore_config(a_Config, a_snapshot)
    /\ a_pc' = IF a_raised = "none" THEN "returned" ELSE "raised"
    /\ UNCHANGED <<mvars, pvars, xvars, dvars, rvars, gvars, tvars, svars, earlier_runs,
                   a_upload, a_settings, a_before, a_snapshot, a_raised>>

ApiNext ==
    \/ ReceiveUpload
    \/ GradeBatch
    \/ RestoreConfig

SpecApi == ApiInit /\ [][ApiNext]_vars

(***************************************************************************)
(* Several MasterGrader objects in one process: each is constructed and    *)
(* runs its stages, interleaved with the others                            *)
(***************************************************************************)

\* so many MasterGrader objects
MaxRuns == 2

\* the arguments of MasterGrader(...); an argument left out is NONE, a
\* threshold left out has given = FALSE
RunArgs ==
    { [root_dir |-> NONE, output_dir |-> NONE,
       threshold |-> [given |-> FALSE, value |-> 0], template_path |-> NONE],
      [root_dir |-> <<"r", "o", "o", "t", "A">>, output_dir |-> <<"o", "u", "t", "A">>,
       threshold |-> [given |-> TRUE, value |-> 90000],
       template_path |-> <<"t", "p", "l", "A", ".", "c">>],
      [root_dir |-> <<"r", "o", "o", "t", "B">>, output_dir |-> <<"o", "u", "t", "B">>,
       threshold |-> [given |-> TRUE, value |-> 50000], template_path |-> NONE] }

\* MasterGrader.__init__: config.Config after the arguments given were
\* written into it
apply_cli_settings(Config, args) ==
    [ROOT_DIR |-> IF args.root_dir # NONE THEN args.root_dir ELSE Config.ROOT_DIR,
     OUTPUT_DIR |-> IF args.output_dir # NONE THEN args.output_dir ELSE Config.OUTPUT_DIR,
     SIMILARITY_THRESHOLD |->
        IF args.threshold.given THEN args.threshold.value ELSE Config.SIMILARITY_THRESHOLD,
     TEMPLATE_CODE_PATH |->
        IF args.template_path # NONE THEN args.template_path ELSE Config.TEMPLATE_CODE_PATH]

\* the stages of MasterGrader.run in their order, and the settings each
\* reads from config.Config
RunStages == <<"validate_environment", "step1_extraction", "step2_organization",
               "step3_plagiarism_detection", "step4_reporting">>

stage_reads(stage) ==
    IF stage = "validate_environment"
    THEN {"ROOT_DIR", "OUTPUT_DIR", "SIMILARITY_THRESHOLD"}
    ELSE IF stage = "step1_extraction" THEN {"ROOT_DIR"}
    ELSE IF stage = "step2_organization" THEN {"OUTPUT_DIR"}
    ELSE IF stage = "step3_plagiarism_detection"
    THEN {"OUTPUT_DIR", "TEMPLATE_CODE_PATH", "SIMILARITY_THRESHOLD"}
    ELSE {"OUTPUT_DIR", "SIMILARITY_THRESHOLD"}

\* nothing constructed yet
RunsInit ==
    /\ Constructed
    /\ MapperIdle
    /\ ExtractorIdle
    /\ DetectorIdle
    /\ ReportIdle
    /\ TokenizerIdle
    /\ SubmissionsIdle
    /\ ApiIdle
    /\ cfg = DefaultConfig
    /\ root = NoFiles
    /\ g_Config = ConfigDefaults
    /\ g_runs = [i \in 1..MaxRuns |-> [pc |-> 0, own |-> ConfigDefaults, used |-> <<>>]]

\* MasterGrader(root_dir, output_dir, threshold, template_path)
ConstructGrader ==
    \E i \in DOMAIN g_runs, args \in RunArgs :
        /\ g_runs[i].pc = 0
        /\ g_Config' = apply_cli_settings(g_Config, args)
        /\ g_runs' = [g_runs EXCEPT ![i].pc = 1,
                                    ![i].own = apply_cli_settings(g_Config, args)]
        /\ UNCHANGED <<avars, earlier_runs, mvars, pvars, xvars, dvars, rvars, tvars, svars>>

\* the next stage of run() of one MasterGrader
RunStage ==
    \E i \in DOMAIN g_runs :
        /\ g_runs[i].pc \in 1..Len(RunStages)
        /\ g_runs' = [g_runs EXCEPT
                ![i].pc = @ + 1,
                ![i].used = Append(@, [stage |-> RunStages[g_runs[i].pc],
                                       read |-> [setting \in stage_reads(RunStages[g_runs[i].pc])
                                                    |-> g_Config[setting]]])]
        /\ UNCHANGED <<avars, earlier_runs, mvars, pvars, xvars, dvars, rvars, tvars, svars, g_Config>>

RunsNext == ConstructGrader \/ RunStage

SpecRuns == RunsInit /\ [][RunsNext]_vars

(***************************************************************************)
(* The pipeline: MasterGrader.run (main.py)                                *)
(***************************************************************************)

\* a dict entry by its student id
entry(dict, student_id) == CHOOSE e \in Range(dict) : e.student_id = student_id

Init ==
    /\ MapperIdle
    /\ ExtractorIdle
    /\ DetectorIdle
    /\ ReportIdle
    /\ RunsIdle
    /\ TokenizerIdle
    /\ SubmissionsIdle
    /\ ApiIdle
    /\ Constructed
    /\ cfg \in Configs
    /\ root \in Roots
    /\ (~cfg.root_exists => root = NoFiles)
    /\ (Cardinality(DOMAIN root) > 1 => cfg \in MainConfigs)

\* validate_environment, and on its failure the return of run
ValidateEnvironment ==
    /\ pc = "start"
    /\ IF validate_config(cfg) # {}
       THEN /\ pc' = "returned"
            /\ ret' = "False"
            /\ UNCHANGED out_dirs
       ELSE /\ pc' = "step1"
            /\ out_dirs' = out_dirs \cup
                    initialize_directories(OUTPUT_DIR, LOGS_DIR, cfg.NUM_QUESTIONS)
            /\ UNCHANGED ret
    /\ UNCHANGED <<avars, earlier_runs, mvars, xvars, dvars, rvars, gvars, tvars, svars, cfg, root, listing, results, extraction_results, temp_dirs,
                   scratch, created, org_todo, org_results, organization_results,
                   out_files, question_num, similarity_cache,
                   all_plagiarism_cases, plagiarism_cases, calls, log_entries,
                   reported, faults>>

\* step1_extraction calls extract_student_submissions: os.listdir(root_dir)
Step1Start ==
    /\ pc = "step1"
    /\ pc' = "extract"
    /\ listing' \in Perms(DOMAIN root)
    /\ results' = <<>>
    /\ UNCHANGED <<avars, earlier_runs, mvars, xvars, dvars, rvars, gvars, tvars, svars, cfg, root, ret, extraction_results, temp_dirs, scratch, created,
                   org_todo, org_results, organization_results, out_dirs,
                   out_files, question_num, similarity_cache,
                   all_plagiarism_cases, plagiarism_cases, calls, log_entries,
                   reported, faults>>

\* one round of the loop of extract_student_submissions:
\* extract_student_zips_to_temp for the next student directory
ExtractStudent ==
    /\ pc = "extract"
    /\ listing # <<>>
    /\ LET student_id   == Head(listing)
           student_path == path_join(ROOT_DIR, student_id)
       IN  \E rnd \in RandomSuffixes :
           \E outcome \in {"done", "mkdtemp raises", "directory vanished", "raises"} :
           \E student_temp_dir \in {mkdtemp(student_id, rnd)} :
               /\ student_temp_dir \notin created
               /\ faults' = IF outcome = "done" THEN faults ELSE faults + 1
               /\ faults' <= MaxFaults
               /\ CASE outcome = "mkdtemp raises" ->
                        \* the exception leaves extract_student_submissions;
                        \* step1_extraction catches it and returns False; run
                        \* goes on to step2_organization
                        /\ pc' = "organize"
                        /\ listing' = <<>>
                        /\ results' = <<>>
                        /\ org_todo' = extraction_results
                        /\ org_results' = <<>>
                        /\ UNCHANGED <<scratch, created, log_entries>>
                   [] outcome = "done" ->
                        /\ scratch' = (student_temp_dir :>
                                         extracted_files(student_path, root[student_id]))
                                      @@ scratch
                        /\ created' = created \cup {student_temp_dir}
                        /\ results' = Append(results,
                                [student_id |-> student_id,
                                 temp_path |-> student_temp_dir])
                        /\ log_entries' = log_entries \o
                                extraction_errors(student_id, root[student_id])
                        /\ listing' = Tail(listing)
                        /\ UNCHANGED <<pc, org_todo, org_results>>
                   [] outcome = "directory vanished" ->
                        \* os.path.exists(student_dir) is false: return None
                        /\ scratch' = (student_temp_dir :> NoFiles) @@ scratch
                        /\ created' = created \cup {student_temp_dir}
                        /\ results' = Append(results,
                                [student_id |-> student_id, temp_path |-> NONE])
                        /\ listing' = Tail(listing)
                        /\ UNCHANGED <<pc, org_todo, org_results, log_entries>>
                   [] outcome = "raises" ->
                        \* an exception inside the try: logged, the scratch
                        \* directory removed, return None
                        /\ created' = created \cup {student_temp_dir}
                        /\ results' = Append(results,
                                [student_id |-> student_id, temp_path |-> NONE])
                        /\ log_entries' = Append(log_entries,
                                [message |-> "student", student_id |-> student_id])
                        /\ listing' = Tail(listing)
                        /\ UNCHANGED <<pc, org_todo, org_results, scratch>>
    /\ UNCHANGED <<avars, earlier_runs, mvars, xvars, dvars, rvars, gvars, tvars, svars, cfg, root, ret, extraction_results, temp_dirs,
                   organization_results, out_dirs, out_files, question_num,
                   similarity_cache, all_plagiarism_cases, plagiarism_cases,
                   calls, reported>>

\* extract_student_submissions returns; step1_extraction keeps the results
\* and the scratch directories to clean up; step2_organization starts
Step1Finish ==
    /\ pc = "extract"
    /\ listing = <<>>
    /\ pc' = "organize"
    /\ extraction_results' = results
    /\ temp_dirs' = temp_dirs \o
            Tuple([i \in 1..Len(SelectSeq(results, LAMBDA r : r.temp_path # NONE)) |->
                     SelectSeq(results, LAMBDA r : r.temp_path # NONE)[i].temp_path])
    /\ org_todo' = results
    /\ org_results' = <<>>
    /\ UNCHANGED <<avars, earlier_runs, mvars, xvars, dvars, rvars, gvars, tvars, svars, cfg, root, ret, listing, results, scratch, created,
                   organization_results, out_dirs, out_files, question_num,
                   similarity_cache, all_plagiarism_cases, plagiarism_cases,
                   calls, log_entries, reported, faults>>

\* FileMapper.organize_student_files for a scratch directory whose files
\* os.walk yields as walk; failing is the set of questions whose copy raises:
\* the dict organized, and the files and directories of the output afterwards
organize_student_files(student_dir, files, walk, student_id, output_dir, N, failing, fs, dirs) ==
    LET content(source) == files[Slice(source, Len(student_dir) + 2, Len(source))]
        organize(mapping, all_c_files, copied) ==
            [organized |->
                [student_id     |-> student_id,
                 mapped_files   |-> [q \in copied |->
                                        [source |-> mapping[q][1],
                                         destination |->
                                            dest_file(output_dir, q, student_id)]],
                 unmapped_files |-> SelectSeq(all_c_files, LAMBDA f :
                                        \A q \in DOMAIN mapping : f \notin Range(mapping[q])),
                 total_files    |-> Cardinality(copied),
                 errors         |-> Cardinality(DOMAIN mapping \cap failing)],
             files |-> [d \in DOMAIN fs \cup
                              {dest_file(output_dir, q, student_id) : q \in copied} |->
                          IF \E q \in copied : dest_file(output_dir, q, student_id) = d
                          THEN content(mapping[CHOOSE q \in copied :
                                    dest_file(output_dir, q, student_id) = d][1])
                          ELSE fs[d]],
             dirs  |-> dirs \cup {dest_dir(output_dir, q) : q \in DOMAIN mapping}]
        with(mapping) ==
            organize(mapping, collect_c_files(student_dir, walk), DOMAIN mapping \ failing)
    IN  with(map_student_files(student_dir, TRUE, walk, N).mapping)

\* one round of the loop of organize_all_students
OrganizeStudent ==
    /\ pc = "organize"
    /\ org_todo # <<>>
    /\ LET student_id == Head(org_todo).student_id
           temp_path  == Head(org_todo).temp_path
       IN  IF temp_path = NONE \/ temp_path \notin DOMAIN scratch
           THEN /\ org_results' = Append(org_results,
                        [student_id |-> student_id, mapped_files |-> <<>>,
                         unmapped_files |-> <<>>, total_files |-> 0, errors |-> 0])
                /\ org_todo' = Tail(org_todo)
                /\ UNCHANGED <<pc, ret, out_files, out_dirs, faults>>
           ELSE \E walk \in Perms(DOMAIN scratch[temp_path]) :
                \E outcome \in {"done", "copy fails", "raises"} :
                    /\ faults' = IF outcome = "done" THEN faults ELSE faults + 1
                    /\ faults' <= MaxFaults
                    /\ IF outcome = "raises"
                       THEN \* an exception leaves organize_all_students;
                            \* step2_organization returns False and so does run
                            /\ pc' = "returned"
                            /\ ret' = "False"
                            /\ org_todo' = <<>>
                            /\ org_results' = <<>>
                            /\ UNCHANGED <<out_files, out_dirs>>
                       ELSE \E failing \in IF outcome = "done" THEN {{}}
                                           ELSE {{q} : q \in 1..cfg.NUM_QUESTIONS} :
                            \E r \in {organize_student_files(temp_path,
                                        scratch[temp_path], walk, student_id,
                                        OUTPUT_DIR, cfg.NUM_QUESTIONS, failing,
                                        out_files, out_dirs)} :
                                /\ (outcome = "copy fails" => r.organized.errors > 0)
                                /\ org_results' = Append(org_results, r.organized)
                                /\ out_files' = r.files
                                /\ out_dirs' = r.dirs
                                /\ org_todo' = Tail(org_todo)
                                /\ UNCHANGED <<pc, ret>>
    /\ UNCHANGED <<avars, earlier_runs, mvars, xvars, dvars, rvars, gvars, tvars, svars, cfg, root, listing, results, extraction_results, temp_dirs,
                   scratch, created, organization_results, question_num,
                   similarity_cache, all_plagiarism_cases, plagiarism_cases,
                   calls, log_entries, reported>>

\* organize_all_students returns; step3_plagiarism_detection starts:
\* detect_plagiarism loads the template and builds a detector
Step2Finish ==
    /\ pc = "organize"
    /\ org_todo = <<>>
    /\ pc' = "detect"
    /\ organization_results' = org_results
    /\ question_num' = 1
    /\ similarity_cache' = <<>>
    /\ all_plagiarism_cases' = <<>>
    /\ UNCHANGED <<avars, earlier_runs, mvars, xvars, dvars, rvars, gvars, tvars, svars, cfg, root, ret, listing, results, extraction_results,
                   temp_dirs, scratch, created, org_todo, org_results, out_dirs,
                   out_files, plagiarism_cases, calls, log_entries, reported,
                   faults>>

\* one round of the loop of detect_plagiarism_all_questions
DetectQuestion ==
    /\ pc = "detect"
    /\ question_num <= cfg.NUM_QUESTIONS
    /\ \E names \in Perms(listdir(out_files, question_dir(OUTPUT_DIR, question_num))) :
       \E r \in {detect_plagiarism_in_question(out_files, out_dirs,
                    question_dir(OUTPUT_DIR, question_num), names, question_num,
                    cfg.SIMILARITY_THRESHOLD, cfg.template, cfg.MIN_TOKEN_COUNT,
                    similarity_cache)} :
            /\ all_plagiarism_cases' = all_plagiarism_cases \o r.cases
            /\ similarity_cache' = r.cache
            /\ calls' = calls \o r.calls
    /\ question_num' = question_num + 1
    /\ UNCHANGED <<avars, earlier_runs, mvars, xvars, dvars, rvars, gvars, tvars, svars, cfg, root, pc, ret, listing, results, extraction_results,
                   temp_dirs, scratch, created, org_todo, org_results,
                   organization_results, out_dirs, out_files, plagiarism_cases,
                   log_entries, reported, faults>>

\* detect_plagiarism returns; step3_plagiarism_detection keeps the cases
Step3Finish ==
    /\ pc = "detect"
    /\ question_num > cfg.NUM_QUESTIONS
    /\ pc' = "report"
    /\ plagiarism_cases' = all_plagiarism_cases
    /\ UNCHANGED <<avars, earlier_runs, mvars, xvars, dvars, rvars, gvars, tvars, svars, cfg, root, ret, listing, results, extraction_results,
                   temp_dirs, scratch, created, org_todo, org_results,
                   organization_results, out_dirs, out_files, question_num,
                   similarity_cache, all_plagiarism_cases, calls, log_entries,
                   reported, faults>>

\* cleanup_temp_dirs: shutil.rmtree of every path in self.temp_dirs
cleanup_temp_dirs(dirs, paths) ==
    [d \in DOMAIN dirs \ Range(paths) |-> dirs[d]]

\* step4_reporting, print_final_summary, cleanup_temp_dirs, return True
Step4Finish ==
    /\ pc = "report"
    /\ pc' = "returned"
    /\ reported' = TRUE
    /\ scratch' = cleanup_temp_dirs(scratch, temp_dirs)
    /\ ret' = "True"
    /\ UNCHANGED <<avars, earlier_runs, mvars, xvars, dvars, rvars, gvars, tvars, svars, cfg, root, listing, results, extraction_results, temp_dirs,
                   created, org_todo, org_results, organization_results,
                   out_dirs, out_files, question_num, similarity_cache,
                   all_plagiarism_cases, plagiarism_cases, calls, log_entries,
                   faults>>

Next ==
    \/ ValidateEnvironment
    \/ Step1Start
    \/ ExtractStudent
    \/ Step1Finish
    \/ OrganizeStudent
    \/ Step2Finish
    \/ DetectQuestion
    \/ Step3Finish
    \/ Step4Finish

Spec == Init /\ [][Next]_vars

(***************************************************************************)
(* Runs one after another on one disk: the next MasterGrader is            *)
(* constructed when run has returned, on what is left of the root, with    *)
(* the same configuration and the same output directory                    *)
(***************************************************************************)

\* the roots of the next run: some student directories of the earlier root
\* are gone, the others are as they were
LaterRoots(earlier) ==
    {[id \in ids |-> earlier[id]] : ids \in SUBSET DOMAIN earlier}

\* after a run that returned True without failure of the environment, a
\* MasterGrader is constructed for the next run: its results are empty; the
\* output directory, the log directory and the scratch directories the
\* earlier run left stay as they are
NextRun ==
    /\ pc = "returned"
    /\ ret = "True"
    /\ faults = 0
    /\ earlier_runs + 1 < MaxRuns
    /\ earlier_runs' = earlier_runs + 1
    /\ root' \in LaterRoots(root)
    /\ pc' = "start"
    /\ ret' = "running"
    /\ listing' = <<>>
    /\ results' = <<>>
    /\ extraction_results' = <<>>
    /\ temp_dirs' = <<>>
    /\ created' = {}
    /\ org_todo' = <<>>
    /\ org_results' = <<>>
    /\ organization_results' = <<>>
    /\ question_num' = 0
    /\ similarity_cache' = <<>>
    /\ all_plagiarism_cases' = <<>>
    /\ plagiarism_cases' = <<>>
    /\ calls' = <<>>
    /\ log_entries' = <<>>
    /\ reported' = FALSE
    /\ UNCHANGED <<avars, mvars, xvars, dvars, rvars, gvars, tvars, svars, cfg, scratch,
                   out_dirs, out_files, faults>>

\* the configuration of the runs made one after another
RerunsConfig ==
    [root_exists |-> TRUE, NUM_QUESTIONS |-> 2, SIMILARITY_THRESHOLD |-> 33331,
     MIN_TOKEN_COUNT |-> 2, template |-> NONE]

RerunsInit ==
    /\ Init
    /\ cfg = RerunsConfig

RerunsNext == Next \/ NextRun

SpecReruns == RerunsInit /\ [][RerunsNext]_vars

(***************************************************************************)
(* Properties of the mapper                                                *)
(***************************************************************************)

\* the file has one of the accepted extensions
has_accepted_extension(path) ==
    \E e \in 1..Len(ACCEPTED_EXTENSIONS) :
        ACCEPTED_EXTENSIONS[e] = Lower(splitext_ext(basename(path)))

\* the strict patterns of two or more distinct questions match the file's
\* name or path
matched_by_several(path, N) ==
    Cardinality(DOMAIN strict_matches(path, basename(path), N)) >= 2

\* some warning names the file
warned(warnings, path) ==
    \E i \in 1..Len(warnings) : warnings[i].file = basename(path)

\* C5: a source file matched by the strict patterns of two or more distinct
\* questions gets no assignment from map_file_to_question (neither from the
\* patterns nor from the number fallback) and an ambiguity warning is
\* recorded for it; map_student_files puts it under no question, so that it
\* is copied into no Q{q} directory.
C5_RefusalOnAmbiguity ==
    /\ (m_call = "file_done" /\ m_exists /\ has_accepted_extension(m_path)
            /\ matched_by_several(m_path, m_N))
        => (m_result = NONE /\ warned(m_warnings, m_path))
    /\ (m_call = "student_done" /\ m_exists)
        => \A f \in {c \in Range(collect_c_files(m_path, m_files)) :
                        matched_by_several(c, m_N)} :
              /\ \A q \in DOMAIN m_mapping : f \notin Range(m_mapping[q])
              /\ warned(m_warnings, f)

\* C5 happens: a single call refused a file that patterns of two questions
\* match, with the warning of the patterns and the warning of the fallback
C5_Witness ==
    /\ m_call = "file_done" /\ m_exists /\ has_accepted_extension(m_path)
    /\ matched_by_several(m_path, m_N)
    /\ m_result = NONE
    /\ Len(m_warnings) = 2

\* C6: with NUM_QUESTIONS >= 2 and no other question marker in its path, a
\* file named q1_q2_common.c is assigned to neither question 1 nor question 2
\* and an ambiguity warning is recorded for it.
C6_CommonFileRefused ==
    (/\ m_call = "file_done" /\ m_exists /\ m_N >= 2
     /\ basename(m_path) = NAME_q1_q2_common
     /\ DigitRuns(dirname(m_path), 1) = <<>>)
    => (m_result = NONE /\ warned(m_warnings, m_path))

\* C7: in the mapping that map_student_files returns, every question number
\* is in 1..NUM_QUESTIONS and holds exactly one file path, and no file path
\* is under two questions.
C7_MappingInvariant ==
    m_call = "student_done" =>
        /\ DOMAIN m_mapping \subseteq 1..m_N
        /\ \A q \in DOMAIN m_mapping : Len(m_mapping[q]) = 1
        /\ \A q1, q2 \in DOMAIN m_mapping :
                q1 # q2 => Range(m_mapping[q1]) \cap Range(m_mapping[q2]) = {}

\* C7 happens: two files of a student go to two questions
C7_Witness ==
    /\ m_call = "student_done"
    /\ Cardinality(DOMAIN m_mapping) = 2
    /\ \A q \in DOMAIN m_mapping : Len(m_mapping[q]) = 1

(***************************************************************************)
(* Properties of the pipeline (specification Spec)                         *)
(***************************************************************************)

\* the cases the detector has emitted and the cases the grader keeps
emitted_cases == Range(all_plagiarism_cases) \cup Range(plagiarism_cases)

\* file_path lies directly in the directory Q{q} of the output directory
under_question(file_path, q) ==
    dirname(file_path) = OUTPUT_DIR \o <<"/", "Q">> \o IntToStr(q)

\* C1: question isolation. Every call of compare_two_files made by
\* detect_plagiarism_all_questions receives two files of the same directory
\* output_dir/Q{q}, and every emitted case has its question q in
\* 1..NUM_QUESTIONS and both of its files under output_dir/Q{q}: no file of
\* one question is compared with a file of another.
C1_QuestionIsolation ==
    /\ \A i \in 1..Len(calls) :
            /\ calls[i].question \in 1..cfg.NUM_QUESTIONS
            /\ under_question(calls[i].file1, calls[i].question)
            /\ under_question(calls[i].file2, calls[i].question)
    /\ \A c \in emitted_cases :
            /\ c.question \in 1..cfg.NUM_QUESTIONS
            /\ under_question(c.file1, c.question)
            /\ under_question(c.file2, c.question)

\* a run that compared files of question 1 and kept a case of question 2
C1_Witness ==
    /\ pc = "returned"
    /\ \E i \in 1..Len(calls) : calls[i].question = 1
    /\ \E c \in Range(plagiarism_cases) :
            c.question = 2 /\ under_question(c.file1, 2) /\ under_question(c.file2, 2)

\* C2: in every case emitted by detect_plagiarism_in_question, whatever files
\* the question directory holds and in whatever order os.listdir yields
\* them, student1 is strictly less than student2 lexicographically.
C2_StudentsOrdered ==
    \A c \in emitted_cases : StrLess(c.student1, c.student2)

\* C3: for every compared pair of gate-passing files of two students in a
\* question, a case is emitted if and only if the similarity is at least
\* SIMILARITY_THRESHOLD, and the similarity recorded in every case, rounded
\* to two decimals, is at least SIMILARITY_THRESHOLD.
C3_ThresholdRule ==
    /\ \A i \in 1..Len(calls) :
            FracGeq(calls[i].similarity, Thousandths(cfg.SIMILARITY_THRESHOLD))
            <=> \E c \in Range(all_plagiarism_cases) :
                    /\ c.question = calls[i].question
                    /\ c.file1 = calls[i].file1
                    /\ c.file2 = calls[i].file2
    /\ \A c \in emitted_cases : c.similarity * 10 >= cfg.SIMILARITY_THRESHOLD

\* C4: the liveness gate keeps a file whose token stream equals the
\* template's token stream out of every comparison and every case.
C4_TemplateCopyExcluded ==
    \A f \in {calls[i].file1 : i \in 1..Len(calls)}
             \cup {calls[i].file2 : i \in 1..Len(calls)}
             \cup {c.file1 : c \in emitted_cases}
             \cup {c.file2 : c \in emitted_cases} :
        ~(cfg.template # NONE /\ f \in DOMAIN out_files /\ out_files[f] = cfg.template)

\* C8: after run has returned, True or False, no scratch directory made by
\* tempfile.mkdtemp during the extraction of that run still exists.
C8_ScratchCleanedUp ==
    pc = "returned" => DOMAIN scratch = {}

\* the four conditions of a configuration error
config_error(c) ==
    \/ ~c.root_exists
    \/ c.NUM_QUESTIONS < 1
    \/ c.SIMILARITY_THRESHOLD < 0
    \/ c.SIMILARITY_THRESHOLD > 100 * 1000
    \/ c.MIN_TOKEN_COUNT < 1

\* C9: validate_config reports an error exactly when the root is missing,
\* NUM_QUESTIONS < 1, SIMILARITY_THRESHOLD is outside [0, 100] or
\* MIN_TOKEN_COUNT < 1; run then returns False having created no output
\* directory and having extracted, mapped, compared and reported nothing.
C9_ConfigErrorsAbort ==
    /\ (validate_config(cfg) # {}) <=> config_error(cfg)
    /\ (config_error(cfg) /\ pc # "start")
        => /\ pc = "returned"
           /\ ret = "False"
           /\ out_dirs = {}
           /\ created = {}
           /\ DOMAIN scratch = {}
           /\ extraction_results = <<>>
           /\ organization_results = <<>>
           /\ DOMAIN out_files = {}
           /\ calls = <<>>
           /\ plagiarism_cases = <<>>
           /\ ~reported

\* run has returned False for an existing root with MIN_TOKEN_COUNT < 1
C9_Witness ==
    /\ pc = "returned"
    /\ ret = "False"
    /\ cfg.root_exists
    /\ cfg.NUM_QUESTIONS >= 1
    /\ cfg.SIMILARITY_THRESHOLD \in 0..(100 * 1000)
    /\ cfg.MIN_TOKEN_COUNT < 1
    /\ out_dirs = {}

\* C10: whatever fails for one student, every student directory of the root
\* has an entry in the extraction results and in the organization results
\* once a run with a valid configuration has returned.
C10_EveryStudentHasEntries ==
    (pc = "returned" /\ validate_config(cfg) = {})
        => \A student_id \in DOMAIN root :
                /\ \E e \in Range(extraction_results) : e.student_id = student_id
                /\ \E e \in Range(organization_results) : e.student_id = student_id

\* C11: no silent drops. Once a run has returned True, every file of the
\* output that the liveness gate keeps out of the comparison has an entry
\* of its student in MasterGrader.log_entries.
C11_NoSilentDrops ==
    (pc = "returned" /\ ret = "True")
        => \A f \in DOMAIN out_files :
                ~valid_file(out_files, f, cfg.template, cfg.MIN_TOKEN_COUNT).valid
                => \E i \in 1..Len(log_entries) :
                        log_entries[i].student_id = splitext_root(basename(f))

(***************************************************************************)
(* Properties of the extractor                                             *)
(***************************************************************************)

\* the member's path, joined to the target and normalized, lies outside
\* the target
escapes_target(extract_to, member) ==
    ~under(extract_to, resolve(os_path_join(extract_to, member)))

\* the members of the archive extract_zip was called on
top_members == namelist(x_st.fs[resolve(x_zip_path)])

\* the call of extract_zip has returned after opening its archive
extracted_top ==
    /\ x_call = "done"
    /\ \E i \in 1..Len(x_st.opened) :
            x_st.opened[i].zip_path = x_zip_path /\ x_st.opened[i].depth = x_depth

\* C12: path-traversal guard. No extraction writes a file outside its
\* target, and every member of the archive whose normalized joined path
\* lies outside the target is refused: no file is written for it, neither
\* outside nor under another name inside, and a log entry is recorded.
C12_TraversalRefused ==
    /\ \A i \in 1..Len(x_st.written) :
            under(x_st.written[i].extract_to, x_st.written[i].path)
    /\ extracted_top =>
        \A k \in 1..Len(top_members) :
            (/\ ~should_ignore(top_members[k].name)
             /\ escapes_target(x_extract_to, top_members[k].name))
                => /\ ~\E i \in 1..Len(x_st.written) :
                            /\ x_st.written[i].zip_path = x_zip_path
                            /\ x_st.written[i].member = top_members[k].name
                   /\ \E i \in 1..Len(x_st.log) : x_st.log[i].file_path = x_zip_path

\* C13: depth bound. A call of extract_zip with depth above
\* MAX_EXTRACTION_DEPTH records one log entry, returns False, opens no
\* archive and writes no file; so no archive nested beyond the limit is
\* opened, the calls under way never number more than the limit allows,
\* and the members that follow a refused archive are still extracted.
C13_DepthBound ==
    /\ \A i \in 1..Len(x_st.opened) : x_st.opened[i].depth <= MAX_EXTRACTION_DEPTH
    /\ \A i \in 1..Len(x_st.written) : x_st.written[i].depth <= MAX_EXTRACTION_DEPTH
    /\ \A i \in 1..Len(x_stack) : x_stack[i].depth = x_depth + i - 1
    /\ Len(x_stack) <= MAX_EXTRACTION_DEPTH + 2
    /\ (x_call = "done" /\ x_depth > MAX_EXTRACTION_DEPTH)
            => /\ x_ret = "False"
               /\ Len(x_st.log) = 1
               /\ x_st.log[1] = [message |-> "depth", student_id |-> <<>>,
                               file_path |-> x_zip_path]
               /\ x_st.opened = <<>>
               /\ x_st.written = <<>>
               /\ DOMAIN x_st.fs \subseteq {x_zip_path}
    /\ extracted_top
            => /\ x_ret = "True"
               /\ \A k \in 1..Len(top_members) :
                    ~should_ignore(top_members[k].name)
                        => \/ \E i \in 1..Len(x_st.written) :
                                /\ x_st.written[i].zip_path = x_zip_path
                                /\ x_st.written[i].member = top_members[k].name
                           \/ \E i \in 1..Len(x_st.log) :
                                x_st.log[i] = [message |-> "member", student_id |-> <<>>,
                                              file_path |-> x_zip_path]

\* a call at depth 0 on archives nested beyond the limit has returned True:
\* the archive at depth MAX_EXTRACTION_DEPTH + 1 was refused with a log
\* entry, and the file after it in the archive at the limit was extracted
C13_Witness ==
    /\ x_call = "done"
    /\ x_depth = 0
    /\ x_ret = "True"
    /\ \E i \in 1..Len(x_st.log) : x_st.log[i].message = "depth"
    /\ \E i \in 1..Len(x_st.written) :
            /\ x_st.written[i].depth = MAX_EXTRACTION_DEPTH
            /\ x_st.written[i].member = FILE_q2
            /\ \E j \in 1..(i - 1) :
                    /\ x_st.written[j].depth = MAX_EXTRACTION_DEPTH
                    /\ x_st.written[j].member = NAME_n_zip

(***************************************************************************)
(* Properties of compare_two_files                                         *)
(***************************************************************************)

\* two percentages are the same number
same_percent(x, y) == x.num * y.den = y.num * x.den

\* C14: for every file f, compare_two_files(f, f) is 100.0.
C14_SelfSimilarity ==
    \A i \in 1..Len(d_calls) :
        (d_calls[i].file1_path = d_calls[i].file2_path
            /\ d_calls[i].file1_path \in DOMAIN d_fs)
            => same_percent(d_calls[i].similarity, [num |-> 100, den |-> 1])

\* C15: similarity is symmetric. What a call compare_two_files(a, b)
\* returned is what compare_two_files(b, a) returns, from the detector's
\* cache as it is now and from the cache of a fresh detector.
C15_Symmetric ==
    \A i \in 1..Len(d_calls) :
        /\ same_percent(d_calls[i].similarity,
                compare_two_files(d_fs, d_calls[i].file2_path, d_calls[i].file1_path,
                                  d_template, d_min, d_cache).similarity)
        /\ same_percent(d_calls[i].similarity,
                compare_two_files(d_fs, d_calls[i].file2_path, d_calls[i].file1_path,
                                  d_template, d_min, <<>>).similarity)

(***************************************************************************)
(* Properties of find_clusters and get_statistics                          *)
(***************************************************************************)

\* the students the cases name
case_students ==
    {r_cases[i].student1 : i \in 1..Len(r_cases)}
        \cup {r_cases[i].student2 : i \in 1..Len(r_cases)}

\* a case pairs the two students, in either order
paired(s, t) ==
    \E i \in 1..Len(r_cases) :
        {r_cases[i].student1, r_cases[i].student2} = {s, t}

RECURSIVE reach(_, _)
\* the students joined to those of the set by paths of at most n cases
reach(from, n) ==
    IF n = 0 THEN from
    ELSE reach(from \cup {t \in case_students : \E s \in from : paired(s, t)}, n - 1)

\* a path of cases connects the two students
path_connects(s, t) == t \in reach({s}, Len(r_cases))

\* C16: clustering. The clusters find_clusters returns are the connected
\* components of the graph of the cases: every student of a case is in
\* exactly one cluster, two students share a cluster exactly when a path of
\* cases connects them, every cluster has at least two students, listed in
\* sorted order with their number as size, and the cluster ids are 1..k.
C16_ClustersAreComponents ==
    "find_clusters" \in r_done =>
        /\ \A s \in case_students :
                Cardinality({c \in 1..Len(r_clusters) : s \in Range(r_clusters[c].students)}) = 1
        /\ \A c \in 1..Len(r_clusters) :
                /\ Range(r_clusters[c].students) \subseteq case_students
                /\ \A s \in Range(r_clusters[c].students), t \in case_students :
                        t \in Range(r_clusters[c].students) <=> path_connects(s, t)
                /\ Len(r_clusters[c].students) >= 2
                /\ r_clusters[c].size = Len(r_clusters[c].students)
                /\ \A i \in 1..(Len(r_clusters[c].students) - 1) :
                        StrLess(r_clusters[c].students[i], r_clusters[c].students[i + 1])
                /\ r_clusters[c].cluster_id = c

\* find_clusters has returned one cluster of four students for a chain of
\* three cases, the first and the last student joined only through the
\* cases between them
C16_Witness ==
    /\ "find_clusters" \in r_done
    /\ Len(r_cases) = 3
    /\ Len(r_clusters) = 1
    /\ r_clusters[1].size = 4
    /\ ~paired(StudentPool[1], STUDENT_dan)

\* C19: statistics. total_cases is the number of cases, by_question[q] the
\* number of cases of question q, by_student[s] the number of cases with s
\* as an endpoint, summing to twice total_cases, and every case is counted
\* in exactly one of the four buckets of the histogram, whose counts sum to
\* total_cases.
C19_Statistics ==
    "get_statistics" \in r_done =>
        LET sum_of(f) ==
                LET RECURSIVE sum(_)
                    sum(S) == IF S = {} THEN 0
                              ELSE LET x == CHOOSE y \in S : TRUE
                                   IN  f[x] + sum(S \ {x})
                IN  sum(DOMAIN f)
        IN  /\ r_stats.total_cases = Len(r_cases)
            /\ \A q \in {r_cases[i].question : i \in 1..Len(r_cases)} :
                    r_stats.by_question[q] =
                        Cardinality({i \in 1..Len(r_cases) : r_cases[i].question = q})
            /\ \A s \in case_students :
                    r_stats.by_student[s] =
                        Cardinality({i \in 1..Len(r_cases) : r_cases[i].student1 = s})
                            + Cardinality({i \in 1..Len(r_cases) : r_cases[i].student2 = s})
            /\ sum_of(r_stats.by_student) = 2 * r_stats.total_cases
            /\ r_stats.similarity_distribution.b85_90
                    + r_stats.similarity_distribution.b90_95
                    + r_stats.similarity_distribution.b95_99
                    + r_stats.similarity_distribution.b99_100 = r_stats.total_cases

(***************************************************************************)
(* Properties of the mapper: the number fallback, and runs repeated        *)
(***************************************************************************)

\* the numbers from 1 to N in the file's path
path_numbers(path, N) == extract_all_numbers(path, N)

\* C20: number fallback. A source file matched by no strict pattern gets
\* question n with confidence 0.4 when its path contains exactly one number
\* n in 1..NUM_QUESTIONS, also when that number is in the file name, and is
\* refused with an ambiguity warning only when the path contains several
\* such numbers.
C20_NumberFallback ==
    (/\ m_call = "file_done" /\ m_exists /\ has_accepted_extension(m_path)
     /\ DOMAIN strict_matches(m_path, basename(m_path), m_N) = {})
        => /\ Len(path_numbers(m_path, m_N)) = 1
                => m_result = <<path_numbers(m_path, m_N)[1], 4>>
           /\ Len(path_numbers(m_path, m_N)) > 1
                => (m_result = NONE /\ warned(m_warnings, m_path))
           /\ warned(m_warnings, m_path) => Len(path_numbers(m_path, m_N)) > 1

\* the mapping with every file given by its path below the student directory
relative_mapping(mapping, student_dir) ==
    [q \in DOMAIN mapping |->
        Tuple([i \in 1..Len(mapping[q]) |->
                Slice(mapping[q][i], Len(student_dir) + 2, Len(mapping[q][i]))])]

\* C17: run idempotence. A second run on the same student directory, with
\* any other random name of the scratch directory and any other order of
\* the directory listing, maps the same files to the same questions.
C17_RunIdempotent ==
    (m_call = "student_done" /\ m_exists) =>
        \A student_id \in Range(StudentPool), rnd \in RandomSuffixes :
            m_path = mkdtemp(student_id, rnd) =>
                \A rnd2 \in RandomSuffixes, walk2 \in Perms(Range(m_files)) :
                    relative_mapping(
                        map_student_files(mkdtemp(student_id, rnd2), m_exists, walk2, m_N).mapping,
                        mkdtemp(student_id, rnd2))
                    = relative_mapping(m_mapping, m_path)

(***************************************************************************)
(* Properties of interleaved runs                                          *)
(***************************************************************************)

\* C18: run isolation. Every stage of a run uses the root directory, the
\* output directory, the threshold and the template the run was constructed
\* with, whatever another run does in between.
C18_RunIsolation ==
    \A i \in DOMAIN g_runs :
        \A k \in 1..Len(g_runs[i].used) :
            \A setting \in DOMAIN g_runs[i].used[k].read :
                g_runs[i].used[k].read[setting] = g_runs[i].own[setting]

(***************************************************************************)
(* Properties of the mapper: file names that are a bare number, and the    *)
(* choice among several files of one question                              *)
(***************************************************************************)

\* the names q.ext and, for a single digit, 0q.ext
bare_number_names(q) ==
    {body \o ACCEPTED_EXTENSIONS[e] :
        body \in {IntToStr(q)} \cup (IF q < 10 THEN {<<"0">> \o IntToStr(q)} ELSE {}),
        e \in 1..Len(ACCEPTED_EXTENSIONS)}

\* no digit in the directory part of the path
plain_directory(path) ==
    \A i \in 1..Len(dirname(path)) : ~IsDigit(dirname(path)[i])

\* C21: filename-anchored pattern. A source file named by the bare number q
\* (or 0q for a single digit) and an accepted extension, in a path with no
\* other question marker, is assigned to question q by map_file_to_question.
C21_BareNumberFile ==
    (m_call = "file_done" /\ m_exists /\ plain_directory(m_path)) =>
        \A q \in 1..m_N :
            basename(m_path) \in bare_number_names(q)
                => (m_result # NONE /\ m_result[1] = q)

\* the indices of the files of c_files that map_file_to_question assigns to q
candidates(file_results, q) ==
    {i \in 1..Len(file_results) : file_results[i].result # NONE /\ file_results[i].result[1] = q}

\* the mapping keeps, for every question with candidates, one candidate of
\* highest confidence and, among those, of shortest path
selects_best(mapping, c_files, file_results, N) ==
    \A q \in 1..N :
        IF candidates(file_results, q) = {}
        THEN q \notin DOMAIN mapping
        ELSE /\ q \in DOMAIN mapping
             /\ Len(mapping[q]) = 1
             /\ \E i \in candidates(file_results, q) :
                    /\ mapping[q][1] = c_files[i]
                    /\ \A j \in candidates(file_results, q) :
                        \/ file_results[i].result[2] > file_results[j].result[2]
                        \/ /\ file_results[i].result[2] = file_results[j].result[2]
                           /\ Len(c_files[i]) <= Len(c_files[j])

\* the files organize_student_files writes for the student directory, each
\* source file holding its own path as content
organized_files(student_dir, walk, N) ==
    organize_student_files(student_dir,
        [rel \in Range(walk) |-> student_dir \o <<"/">> \o rel],
        walk, StudentPool[1], OUTPUT_DIR, N, {}, NoFiles, {}).files

\* the output holds, for every question of the mapping, the one file kept
copies_best(mapping, files) ==
    /\ DOMAIN files = {dest_file(OUTPUT_DIR, q, StudentPool[1]) : q \in DOMAIN mapping}
    /\ \A q \in DOMAIN mapping :
            files[dest_file(OUTPUT_DIR, q, StudentPool[1])] = mapping[q][1]

\* C22: per-question selection. Of several files of a student assigned to
\* one question, map_student_files keeps the single file of highest
\* confidence, among those of equal highest confidence one of shortest
\* path; organize_student_files copies that file and no other candidate.
C22_BestFilePerQuestion ==
    (m_call = "student_done" /\ m_exists) =>
        /\ selects_best(m_mapping, collect_c_files(m_path, m_files),
                        map_results(collect_c_files(m_path, m_files), m_N), m_N)
        /\ copies_best(m_mapping, organized_files(m_path, m_files, m_N))

\* C22 happens: os.walk yields first a longer file, then a shorter one of
\* the same confidence for the same question, and the shorter one is kept
C22_Witness ==
    /\ m_call = "student_done"
    /\ m_exists
    /\ Len(m_files) = 2
    /\ Len(m_files[2]) < Len(m_files[1])
    /\ \E q \in DOMAIN m_mapping :
        /\ m_mapping[q][1] = m_path \o <<"/">> \o m_files[2]
        /\ map_file_to_question(m_path \o <<"/">> \o m_files[1], TRUE, m_N).result
                = map_file_to_question(m_mapping[q][1], TRUE, m_N).result

(***************************************************************************)
(* Properties of the tokenizer                                             *)
(***************************************************************************)

\* the template occurs in the student list as a run of whole tokens from k on
occurs_at(student, template, k) ==
    /\ k + Len(template) - 1 <= Len(student)
    /\ \A i \in 1..Len(template) : student[k + i - 1] = template[i]

\* the student list without the first run of tokens equal to the template
without_first_occurrence(student, template) ==
    IF \E k \in 1..Len(student) : occurs_at(student, template, k)
    THEN LET cut(k) == SubSeq(student, 1, k - 1)
                       \o SubSeq(student, k + Len(template), Len(student))
         IN  cut(Min({k \in 1..Len(student) : occurs_at(student, template, k)}))
    ELSE student

\* C23: template subtraction over token sequences. subtract_template_tokens
\* returns the student list without the first contiguous run of tokens
\* equal to the template, and the student list unchanged when there is no
\* such run; no token is split or merged where the run is removed.
C23_SubtractOverTokens ==
    t_call = "subtract_done" =>
        t_tokens = without_first_occurrence(t_student, t_template)

(***************************************************************************)
(* Properties of the report: the order of the cluster ids                  *)
(***************************************************************************)

\* C24: cluster id order. Whatever the order of the cases, the cluster ids
\* are 1, 2, ... in the order of the clusters' smallest students: the
\* cluster of the smallest student of all has id 1.
C24_ClusterIdOrder ==
    "find_clusters" \in r_done =>
        /\ \A k \in 1..Len(r_clusters) : r_clusters[k].cluster_id = k
        /\ \A i, j \in 1..Len(r_clusters) :
                r_clusters[i].cluster_id < r_clusters[j].cluster_id
                    => StrLess(r_clusters[i].students[1], r_clusters[j].students[1])

\* no string, no comment and no directive can begin in the text
plain_code(text) ==
    \A k \in 1..Len(text) : text[k] \notin {"\"", "'", "/", "*", "\\", "#"}

\* the string literal code[i..j-1] holds // or /*
comment_marker_in(code, i, j) ==
    \E k \in (i + 1)..(j - 3) :
        OccursAt(code, k, <<"/", "/">>) \/ OccursAt(code, k, <<"/", "*">>)

\* C25: comment stripping respects string literals. With comment removal
\* enabled, a string literal that holds // or /* is one string token, and
\* the tokens before it and after it, on its line and on later lines, are
\* those of the text before it and of the text after it.
C25_StringsKeepComments ==
    (t_call = "tokenize_done" /\ t_flags.REMOVE_COMMENTS) =>
        \A i \in 1..Len(t_code) : \A j \in (i + 1)..(Len(t_code) + 1) :
            (/\ string_match(t_code, i) = j
             /\ comment_marker_in(t_code, i, j)
             /\ plain_code(Slice(t_code, 1, i - 1))
             /\ plain_code(Slice(t_code, j, Len(t_code))))
                => t_tokens = tokenize_to_list(Slice(t_code, 1, i - 1), t_mode, t_flags)
                                \o <<TOKEN_STR>>
                                \o tokenize_to_list(Slice(t_code, j, Len(t_code)), t_mode, t_flags)

\* C26: the failure list stored in a student's result holds only entries
\* whose student_id is that student, never entries logged while an earlier
\* student was extracted
C26_OwnFailuresOnly ==
    \A i \in 1..Len(s_results) :
        \A k \in 1..Len(s_results[i].failed) :
            s_results[i].failed[k].student_id = s_results[i].student_id

\* the plain files an archive holds, by the names extraction gives them
archive_files(data) ==
    {zip_arcname(data.members[k].name) :
        k \in {j \in 1..Len(data.members) :
                /\ data.members[j].data.kind = "file"
                /\ ~should_ignore(data.members[j].name)
                /\ Lower(splitext_ext(data.members[j].name)) \notin Range(ZIP_EXTENSIONS)}}

\* the archive at path was extracted into the scratch directory temp_path
\* (its files are there), or an entry of the log names it
extracted_or_logged(st, student_id, temp_path, path) ==
    \/ /\ st.fs[path].kind = "zip"
       /\ archive_files(st.fs[path]) # {}
       /\ \A name \in archive_files(st.fs[path]) :
                path_join(temp_path, name) \in DOMAIN st.fs
    \/ \E k \in 1..Len(st.log) :
            /\ st.log[k].student_id = student_id
            /\ basename(st.log[k].file_path) = basename(path)

\* C27: when extract_student_submissions has returned, every archive the
\* walk of a student's directory found was extracted into the student's
\* scratch directory or has a log entry; two archives of one name in two
\* subdirectories are both extracted
C27_EveryArchiveHandled ==
    s_pc = "returned" =>
        \A i \in 1..Len(s_results) :
            \A e \in {f \in walk_files(x_st.fs, s_results[i].original_path) :
                        Lower(splitext_ext(f.name)) \in Range(ZIP_EXTENSIONS)} :
                extracted_or_logged(x_st, s_results[i].student_id, s_results[i].temp_path,
                                    path_join(e.dir, e.name))

\* C28: the mapping depends only on the layout of the submission. Another
\* student whose scratch directory holds the same relative paths, listed in
\* the same order, gets the same files mapped to the same questions,
\* whatever the student id and the random part of the directory name.
C28_LayoutOnly ==
    (m_call = "student_done" /\ m_exists) =>
        \A other_id \in Range(StudentPool), rnd \in RandomSuffixes :
            relative_mapping(
                map_student_files(mkdtemp(other_id, rnd), m_exists, m_files, m_N).mapping,
                mkdtemp(other_id, rnd))
            = relative_mapping(m_mapping, m_path)

(***************************************************************************)
(* Properties of runs one after another                                    *)
(***************************************************************************)

\* this run copied a file of the student to the directory of question q
mapped_in_this_run(student, q) ==
    \E k \in 1..Len(organization_results) :
        /\ organization_results[k].student_id = student
        /\ q \in DOMAIN organization_results[k].mapped_files

\* C29: after any sequence of runs on one output directory, every student
\* named in a case of the latest run is a directory of that run's root and
\* was mapped to the question of the case in that run, and no file an
\* earlier run left in a question directory is compared.
C29_OnlyThisRunsFiles ==
    /\ \A i \in 1..Len(plagiarism_cases) :
        \A student \in {plagiarism_cases[i].student1, plagiarism_cases[i].student2} :
            /\ student \in DOMAIN root
            /\ mapped_in_this_run(student, plagiarism_cases[i].question)
    /\ \A i \in 1..Len(calls) :
        \A path \in {calls[i].file1, calls[i].file2} :
            \E k \in 1..Len(org_results) :
                \E q \in DOMAIN org_results[k].mapped_files :
                    org_results[k].mapped_files[q].destination = path

(***************************************************************************)
(* Properties of the web API                                               *)
(***************************************************************************)

\* the fields of config.Config a request may modify
REQUEST_FIELDS ==
    {"ROOT_DIR", "OUTPUT_DIR", "SIMILARITY_THRESHOLD", "TOKENIZATION_ENABLED",
     "NORMALIZE_WHITESPACE", "REMOVE_COMMENTS", "REMOVE_INCLUDES", "IGNORE_VARIABLES",
     "TEMPLATE_CODE_PATH"}

\* C30: configuration restore. When process_submission_batch has left its
\* try block after the snapshot, by return or by any exception, every field
\* of config.Config a request may modify has the value it had when the
\* function was called.
C30_ConfigRestored ==
    (a_pc \in {"returned", "raised"} /\ a_snapshot # <<>>) =>
        \A field \in REQUEST_FIELDS : a_Config[field] = a_before[field]

\* the call left after the snapshot, the request had changed the threshold
\* and the four switches, and all are back
C30_Witness ==
    /\ a_pc \in {"returned", "raised"}
    /\ a_snapshot # <<>>
    /\ a_settings.threshold.given
    /\ a_settings.threshold.value # a_before.SIMILARITY_THRESHOLD
    /\ a_settings.ignore_comments.given
    /\ a_settings.ignore_comments.value # a_before.REMOVE_COMMENTS
    /\ a_settings.ignore_variable_names.given
    /\ a_settings.ignore_variable_names.value # a_before.IGNORE_VARIABLES
    /\ a_settings.normalize_whitespace.given
    /\ a_settings.normalize_whitespace.value # a_before.NORMALIZE_WHITESPACE
    /\ a_settings.tokenization_enabled.given
    /\ a_settings.tokenization_enabled.value # a_before.TOKENIZATION_ENABLED
    /\ a_Config = a_before

=============================================================================
